---- MODULE Spec2Model ----
(***************************************************************************)
(* Migration orchestration of nova-conductor's ComputeTaskManager          *)
(* (nova/conductor/manager.py): migrate_server with its live-migration and *)
(* cold-migration paths, the migration record it persists, the instance    *)
(* row it writes through set_vm_state_and_notify, and the exceptions that  *)
(* reach its caller.                                                       *)
(***************************************************************************)
EXTENDS Integers, Sequences, FiniteSets, TLC

(***************************************************************************)
(* Bounds of the model.                                                    *)
(***************************************************************************)
\* number of migrate_server calls made one after the other on the instance
MaxCalls == 2

\* number of times the input normalisation of migrate_server is applied to
\* its own result
MaxPasses == 2

\* largest batch handed to build_instances
MaxInstances == 3

\* unshelve_instance calls in flight for the one instance
MaxCallers == 2

\* the largest timeout of a power_off call and the largest soft reboot window
MaxTimeout == 6

\* the largest retry_interval of a power_off call
MaxRetryInterval == 3

\* threads of the compute service that log the serial output of the instance
MaxThreads == 2

\* console-log writers started for the instance
MaxWriters == 3

(***************************************************************************)
(* Values.                                                                 *)
(***************************************************************************)
NONE == "None"

ACTIVE == "active"
STOPPED == "stopped"
RESIZED == "resized"
ERROR == "error"

MIGRATING == "migrating"
RESIZE_PREP == "resize_prep"

\* vm_states an instance to be migrated is stored with
StableVmStates == {ACTIVE, STOPPED, RESIZED}

\* task_states the instance row can hold: none, the one set for a live
\* migration, and the one set for a resize
TaskStates == {NONE, MIGRATING, RESIZE_PREP}

Hosts == {"host1", "host2"}

\* the host the instance runs on
SourceHost == "host1"

FlavorIds == {5, 7}

Uuid == "uuid-1"

\* the exception classes _live_migrate catches by name
KnownLiveMigrateFailures ==
    {"NoValidHost", "ComputeServiceUnavailable", "InvalidHypervisorType",
     "InvalidCPUInfo", "UnableToMigrateToSelf", "DestinationHypervisorTooOld",
     "InvalidLocalStorage", "InvalidSharedStorage", "HypervisorUnavailable",
     "InstanceInvalidState", "MigrationPreCheckError",
     "LiveMigrationWithOldNovaNotSafe"}

\* the exception classes migrate_server declares as expected
ExpectedExceptions == KnownLiveMigrateFailures \cup {"UnsupportedPolicyException"}

\* what the scheduling and pre-check phase of a task's execute() raises here:
\* three of the classes _live_migrate catches by name, the policy failure of
\* the instance-group setup, and an exception of no expected class
TaskExceptionKinds ==
    {"NoValidHost", "InstanceInvalidState", "MigrationPreCheckError",
     "UnsupportedPolicyException", "Exception"}

\* what the dispatch to the compute agent raises here
DispatchExceptionKinds == {"Exception"}

\* texts an exception can carry
Messages == {"text-a", "text-b"}

NoException == [kind |-> NONE, msg |-> NONE]

MSG_COLD_MIGRATE == "No valid host found for cold migrate"
MSG_RESIZE == "No valid host found for resize"

NoFlavor == [shape |-> NONE, id |-> 0]

\* the flavor argument: absent, a legacy dict {'id': n}, or a Flavor object
FlavorArgs == {NoFlavor} \cup [shape : {"dict", "object"}, id : FlavorIds]

VARIABLES
    pc,             \* position of the migrate_server call in progress
    live,           \* the call's live flag
    rebuild,        \* the call's rebuild flag
    flavor,         \* the call's flavor argument after normalisation
    destination,    \* scheduler_hint['host'] of the call
    instance,       \* the instance object the call was given
    db_instance,    \* the instance row in the database
    migrations,     \* the migration rows in the database, in creation order
    migration,      \* index of the call's migration row, 0 if it made none
    ex,             \* the exception task.execute() raised, if any
    raised,         \* the exception that reached the caller, if any
    calls,          \* scheduler / compute-agent calls observed in this call
    state_updates,  \* set_vm_state_and_notify invocations made in this call
    saves,          \* migration.save() calls made in this call
    ncalls,         \* migrate_server calls started so far
    flavor_lookups,       \* Flavor.get_by_id lookups made by the normalisation
    instance_conversions, \* Instance._from_db_object conversions made by it
    passes,               \* times the normalisation was applied
    build_pc,             \* position of the build_instances call
    instances,            \* the batch: the instances given, in order
    instance_rows,        \* the database rows of the instances of the batch
    filter_properties,    \* the batch-level filter properties
    hosts,                \* what select_destinations returned
    next_pair,            \* index of the next (instance, host) pair
    refreshed,            \* outcome of instance.refresh() per instance
    placement_calls,      \* select_destinations requests made
    build_dispatches,     \* build_and_run_instance casts made
    build_updates,        \* _set_vm_state_and_notify calls made
    build_failed_at,      \* the scheduling step that raised, if any
    unshelve_pc,          \* position of each unshelve_instance call
    unshelve_args,        \* the instance object each call was given
    unshelve_db,          \* the database row of the instance unshelved
    unshelve_image,       \* the image each call looked up
    unshelve_hosts,       \* the candidates each call was given
    unshelve_events,      \* saves, lookups, placement calls and casts made
    unshelve_raised,      \* what each call raised to its caller
    rebuild_pc,           \* position of the rebuild_instance call
    rebuild_arg,          \* the instance object the call was given
    rebuild_host_arg,     \* the host argument of the call
    rebuild_hosts,        \* the candidates select_destinations returned
    rebuild_host,         \* the host the rebuild goes to
    rebuild_db,           \* the database row of the instance rebuilt
    rebuild_events,       \* placement calls, updates, notifications, casts
    rebuild_ex,           \* the exception scheduling raised
    rebuild_raised,        \* what the call raised to its caller
    hv_pc,          \* position of the VMOps call in progress
    hv_call,        \* the call: operation, reboot type, timeout, retry interval
    hv_vm,          \* the VM's state on the hypervisor, NONE when it has none
    hv_timeout,     \* _soft_shutdown: the remaining timeout
    hv_attempts,    \* _soft_shutdown: wait time and outcome of each attempt
    hv_soft,        \* what _soft_shutdown gave its caller, NONE before that
    hv_events,      \* the call's requests to the hypervisor, in order
    hv_result,      \* how the call ended, NONE while it runs
    lw_pc,          \* per thread: position in log_vm_serial_output
    lw_caller,      \* per thread: the operation that logs the serial output
    vm_log_writer,  \* per thread: the local variable vm_log_writer
    lw_lock,        \* holder of the lock on the instance's pipe path, 0 if free
    vm_log_writers, \* VMOps._vm_log_writers[instance_uuid], 0 when absent
    lw_active,      \* the writers whose thread is running
    lw_started      \* the writers started so far, in order

migrate_vars == <<pc, live, rebuild, flavor, destination, instance,
                  db_instance, migrations, migration, ex, raised, calls,
                  state_updates, saves, ncalls>>

normalize_vars == <<flavor_lookups, instance_conversions, passes>>

build_vars == <<build_pc, instances, instance_rows, filter_properties, hosts,
                next_pair, refreshed, placement_calls, build_dispatches,
                build_updates, build_failed_at>>

unshelve_vars == <<unshelve_pc, unshelve_args, unshelve_db, unshelve_image,
                   unshelve_hosts, unshelve_events, unshelve_raised>>

rebuild_vars == <<rebuild_pc, rebuild_arg, rebuild_host_arg, rebuild_hosts,
                  rebuild_host, rebuild_db, rebuild_events, rebuild_ex,
                  rebuild_raised>>

vmops_vars == <<hv_pc, hv_call, hv_vm, hv_timeout, hv_attempts, hv_soft,
                hv_events, hv_result>>

writer_vars == <<lw_pc, lw_caller, vm_log_writer, lw_lock, vm_log_writers,
                 lw_active, lw_started>>

hyperv_vars == <<vmops_vars, writer_vars>>

\* the variables migrate_server, _live_migrate and _cold_migrate leave alone
not_migrate_vars == <<normalize_vars, build_vars, unshelve_vars, rebuild_vars,
                      hyperv_vars>>

\* the variables build_instances leaves alone
not_build_vars == <<migrate_vars, normalize_vars, unshelve_vars, rebuild_vars,
                    hyperv_vars>>

\* the variables unshelve_instance leaves alone
not_unshelve_vars == <<migrate_vars, normalize_vars, build_vars, rebuild_vars,
                       hyperv_vars>>

\* the variables rebuild_instance leaves alone
not_rebuild_vars == <<migrate_vars, normalize_vars, build_vars, unshelve_vars,
                      hyperv_vars>>

\* the variables the VMOps operations leave alone
not_vmops_vars == <<migrate_vars, normalize_vars, build_vars, unshelve_vars,
                    rebuild_vars, writer_vars>>

\* the variables log_vm_serial_output leaves alone
not_writer_vars == <<migrate_vars, normalize_vars, build_vars, unshelve_vars,
                     rebuild_vars, vmops_vars>>

vars == <<migrate_vars, normalize_vars, build_vars, unshelve_vars,
          rebuild_vars, hyperv_vars>>

(***************************************************************************)
(* Instance persistence.  scheduler_utils.set_vm_state_and_notify writes   *)
(* the updates to the instance row; updates that carry an                  *)
(* expected_task_state are applied only if the row's task_state matches,   *)
(* and the write fails with UnexpectedTaskStateError otherwise.            *)
(***************************************************************************)
UnexpectedTaskStateError == [kind |-> "UnexpectedTaskStateError", msg |-> NONE]

write_rejected(row, updates) ==
    /\ updates.expected_task_state # NONE
    /\ row.task_state # updates.expected_task_state

instance_update(row, updates) ==
    [row EXCEPT !.vm_state = updates.vm_state,
                !.task_state = updates.task_state]

(***************************************************************************)
(* migrate_server: input normalisation and routing.                        *)
(***************************************************************************)
\* flavor = objects.Flavor.get_by_id(context, flavor['id']) for a legacy dict
normalize_flavor(f) ==
    IF f # NoFlavor /\ f.shape # "object"
    THEN [shape |-> "object", id |-> f.id]
    ELSE f

\* variant: the flavor argument not looked at
is_live_migrate_any_flavor(l, r, f) == l /\ ~r

is_live_migrate(l, r, f) == l /\ ~r /\ f = NoFlavor

\* variant: the rebuild flag not looked at
is_cold_migrate_any_rebuild(l, r, f) == ~l /\ f # NoFlavor

is_cold_migrate(l, r, f) == ~l /\ ~r /\ f # NoFlavor

(***************************************************************************)
(* _live_migrate: the migration row and the failure handlers.              *)
(***************************************************************************)
\* instance.flavor.id if the flavor attribute is loaded, instance_type_id else
instance_flavor_id(inst) ==
    IF inst.flavor # 0 THEN inst.flavor ELSE inst.instance_type_id

\* variant: source and destination exchanged
new_migration_swapped(inst, dest) ==
    [dest_compute |-> inst.host,
     status |-> "pre-migrating",
     instance_uuid |-> inst.uuid,
     source_compute |-> dest,
     migration_type |-> "live-migration",
     old_instance_type_id |-> instance_flavor_id(inst),
     new_instance_type_id |-> instance_flavor_id(inst)]

new_migration(inst, dest) ==
    [dest_compute |-> dest,
     status |-> "pre-migrating",
     instance_uuid |-> inst.uuid,
     source_compute |-> inst.host,
     migration_type |-> "live-migration",
     old_instance_type_id |-> instance_flavor_id(inst),
     new_instance_type_id |-> instance_flavor_id(inst)]

\* variant: create() reached before the status is assigned
migration_create_before_status(rows, m) ==
    Append(rows, [m EXCEPT !.status = NONE])

\* migration.create()
migration_create(rows, m) == Append(rows, m)

\* variant: the save addressed by instance uuid instead of by row
migration_save_by_instance(rows, idx, status) ==
    [i \in DOMAIN rows |->
        IF rows[i].instance_uuid = rows[idx].instance_uuid
        THEN [rows[i] EXCEPT !.status = status]
        ELSE rows[i]]

\* migration.status = status; migration.save()
migration_save(rows, idx, status) == [rows EXCEPT ![idx].status = status]

\* variant: the write expects no task_state
set_vm_state_unconditional(vm_state, task_state) ==
    [vm_state |-> vm_state,
     task_state |-> task_state,
     expected_task_state |-> NONE]

\* the updates the nested _set_vm_state passes to set_vm_state_and_notify
set_vm_state(vm_state, task_state) ==
    [vm_state |-> vm_state,
     task_state |-> task_state,
     expected_task_state |-> MIGRATING]

live_migrate_updates(e, inst) ==
    IF e.kind \in KnownLiveMigrateFailures
    THEN set_vm_state(inst.vm_state, NONE)
    ELSE set_vm_state(ERROR, inst.task_state)

live_migrate_status(e) ==
    IF e.kind \in KnownLiveMigrateFailures THEN "error" ELSE "failed"

live_migrate_raise(e) ==
    IF e.kind \in KnownLiveMigrateFailures
    THEN e
    ELSE [kind |-> "MigrationError", msg |-> e.msg]

(***************************************************************************)
(* _cold_migrate: the failure handlers.                                    *)
(***************************************************************************)
\* variant: no handler falls back to ACTIVE for an unset vm_state
cold_migrate_updates_no_default(e, inst) ==
    [vm_state |-> inst.vm_state,
     task_state |-> NONE,
     expected_task_state |-> NONE]

cold_migrate_updates(e, inst) ==
    IF e.kind \in {"NoValidHost", "UnsupportedPolicyException"}
    THEN [vm_state |-> IF inst.vm_state = NONE THEN ACTIVE ELSE inst.vm_state,
          task_state |-> NONE,
          expected_task_state |-> NONE]
    ELSE [vm_state |-> inst.vm_state,
          task_state |-> NONE,
          expected_task_state |-> NONE]

\* variant: the NoValidHost raised by the first except clause is caught again
\* by the except Exception clause of the same try
cold_migrate_state_updates_nested(e, inst) ==
    IF e.kind = "NoValidHost"
    THEN <<cold_migrate_updates(e, inst),
           [vm_state |-> inst.vm_state, task_state |-> NONE,
            expected_task_state |-> NONE]>>
    ELSE <<cold_migrate_updates(e, inst)>>

\* the _set_vm_state_and_notify calls one failing execute() leads to: the one
\* of the except clause that matches, and no other
cold_migrate_state_updates(e, inst) == <<cold_migrate_updates(e, inst)>>

\* the instance row after a sequence of unconditional updates
RECURSIVE instance_updates(_, _)
instance_updates(row, updates) ==
    IF updates = <<>>
    THEN row
    ELSE instance_updates(instance_update(row, Head(updates)), Tail(updates))

\* variant: the comparison inverted
cold_migrate_msg_inverted(fl, inst) ==
    IF fl.id # inst.instance_type_id THEN MSG_COLD_MIGRATE ELSE MSG_RESIZE

\* if the flavor IDs match, it's migrate; otherwise resize
cold_migrate_msg(fl, inst) ==
    IF fl.id = inst.instance_type_id THEN MSG_COLD_MIGRATE ELSE MSG_RESIZE

\* variant: unexpected failures wrapped as on the live-migration path
cold_migrate_raise_wrapped(e, fl, inst) ==
    IF e.kind = "NoValidHost"
    THEN [kind |-> "NoValidHost", msg |-> cold_migrate_msg(fl, inst)]
    ELSE IF e.kind = "UnsupportedPolicyException"
    THEN e
    ELSE [kind |-> "MigrationError", msg |-> e.msg]

\* variant: every failure answered with a fresh NoValidHost
cold_migrate_raise_always_no_valid_host(e, fl, inst) ==
    [kind |-> "NoValidHost", msg |-> cold_migrate_msg(fl, inst)]

cold_migrate_raise(e, fl, inst) ==
    IF e.kind = "NoValidHost"
    THEN [kind |-> "NoValidHost", msg |-> cold_migrate_msg(fl, inst)]
    ELSE e

(***************************************************************************)
(* State machine of migrate_server.                                        *)
(***************************************************************************)
normalize_vars_idle ==
    /\ flavor_lookups = 0
    /\ instance_conversions = 0
    /\ passes = 0

NoFilterProperties ==
    [instance_type |-> NoFlavor, num_attempts |-> 0, retry_hosts |-> <<>>,
     limits |-> NONE]

build_vars_idle ==
    /\ build_pc = "idle"
    /\ instances = <<>>
    /\ instance_rows = <<>>
    /\ filter_properties = NoFilterProperties
    /\ hosts = <<>>
    /\ next_pair = 0
    /\ refreshed = <<>>
    /\ placement_calls = <<>>
    /\ build_dispatches = <<>>
    /\ build_updates = <<>>
    /\ build_failed_at = NONE

Callers == 1..MaxCallers

unshelve_vars_idle ==
    /\ unshelve_pc = [p \in Callers |-> "idle"]
    /\ unshelve_args = [p \in Callers |-> NONE]
    /\ unshelve_db = NONE
    /\ unshelve_image = [p \in Callers |-> NONE]
    /\ unshelve_hosts = [p \in Callers |-> NONE]
    /\ unshelve_events = <<>>
    /\ unshelve_raised = [p \in Callers |-> NONE]

rebuild_vars_idle ==
    /\ rebuild_pc = "idle"
    /\ rebuild_arg = NONE
    /\ rebuild_host_arg = NONE
    /\ rebuild_hosts = NONE
    /\ rebuild_host = NONE
    /\ rebuild_db = NONE
    /\ rebuild_events = <<>>
    /\ rebuild_ex = NoException
    /\ rebuild_raised = NoException

(***************************************************************************)
(* Hyper-V VMOps: constants and the values of the idle state.              *)
(***************************************************************************)
HYPERV_VM_STATE_ENABLED == 2

HYPERV_VM_STATE_DISABLED == 3

HYPERV_VM_STATE_REBOOT == 10

SHUTDOWN_TIME_INCREMENT == 5

REBOOT_TYPE_SOFT == "SOFT"

REBOOT_TYPE_HARD == "HARD"

\* no VM of the instance's name on the hypervisor
NoVm == [exists |-> FALSE, state |-> 0]

\* no VMOps call yet
NoCall == [op |-> NONE, reboot_type |-> NONE, timeout |-> 0,
           retry_interval |-> 0]

\* the call has not ended
NoResult == [kind |-> "running", value |-> NONE, origin |-> NONE]

vmops_vars_idle ==
    /\ hv_pc = "idle"
    /\ hv_call = NoCall
    /\ hv_vm = NoVm
    /\ hv_timeout = 0
    /\ hv_attempts = <<>>
    /\ hv_soft = NONE
    /\ hv_events = <<>>
    /\ hv_result = NoResult

writer_vars_idle ==
    /\ lw_pc = <<>>
    /\ lw_caller = <<>>
    /\ vm_log_writer = <<>>
    /\ lw_lock = 0
    /\ vm_log_writers = 0
    /\ lw_active = {}
    /\ lw_started = <<>>

hyperv_vars_idle == vmops_vars_idle /\ writer_vars_idle

Init ==
    /\ pc = "idle"
    /\ live = FALSE
    /\ rebuild = FALSE
    /\ flavor = NoFlavor
    /\ destination = NONE
    /\ db_instance \in [uuid : {Uuid}, host : {SourceHost},
                        vm_state : StableVmStates,
                        task_state : TaskStates, instance_type_id : FlavorIds]
    /\ instance = [uuid |-> NONE, host |-> NONE, vm_state |-> NONE,
                   task_state |-> NONE, instance_type_id |-> 0, flavor |-> 0]
    /\ migrations = <<>>
    /\ migration = 0
    /\ ex = NoException
    /\ raised = NoException
    /\ calls = <<>>
    /\ state_updates = <<>>
    /\ saves = 0
    /\ ncalls = 0
    /\ normalize_vars_idle
    /\ build_vars_idle
    /\ unshelve_vars_idle
    /\ rebuild_vars_idle
    /\ hyperv_vars_idle

\* The instance object a request carries: the row as the API read it.  A
\* live-migrate request carries it with the flavor attribute loaded or not; a
\* cold-migrate request may carry an object whose vm_state is not set.
instance_objects(row, l) ==
    {[uuid |-> row.uuid, host |-> row.host, vm_state |-> vm,
      task_state |-> row.task_state,
      instance_type_id |-> row.instance_type_id, flavor |-> fl] :
        vm \in {row.vm_state} \cup (IF l THEN {} ELSE {NONE}),
        fl \in {row.instance_type_id} \cup (IF l THEN {0} ELSE {})}

\* migrate_server up to the point where the task is built: normalisation,
\* routing, and on the live path the creation of the migration row.
migrate_server ==
    /\ pc \in {"idle", "returned", "raised"}
    /\ ncalls < MaxCalls
    /\ \E l \in BOOLEAN, r \in BOOLEAN, f \in FlavorArgs,
          dest \in Hosts \cup {NONE} :
        \E inst \in instance_objects(db_instance, l) :
          LET fl == normalize_flavor(f) IN
          /\ live' = l
          /\ rebuild' = r
          /\ flavor' = fl
          /\ instance' = inst
          /\ ex' = NoException
          /\ calls' = <<>>
          /\ state_updates' = <<>>
          /\ saves' = 0
          /\ ncalls' = ncalls + 1
          /\ IF is_live_migrate(l, r, fl)
             THEN /\ destination' = dest
                  /\ migrations' =
                         migration_create(migrations, new_migration(inst, dest))
                  /\ migration' = Len(migrations')
                  /\ raised' = NoException
                  /\ pc' = "live_task"
             ELSE IF is_cold_migrate(l, r, fl)
             THEN /\ destination' = NONE
                  /\ migration' = 0
                  /\ raised' = NoException
                  /\ pc' = "cold_task"
                  /\ UNCHANGED migrations
             ELSE /\ destination' = NONE
                  /\ migration' = 0
                  /\ raised' = [kind |-> "NotImplementedError", msg |-> NONE]
                  /\ pc' = "raised"
                  /\ UNCHANGED migrations
    /\ UNCHANGED db_instance
    /\ UNCHANGED not_migrate_vars

\* LiveMigrationTask.execute(), first part: destination selection when no
\* host was given, and the pre-check calls to the compute agents.
live_task_pre_check ==
    /\ pc = "live_task"
    /\ calls' = calls \o (IF destination = NONE
                          THEN <<"select_destinations">> ELSE <<>>)
                      \o <<"check_can_live_migrate_destination">>
    /\ \/ pc' = "live_dispatch" /\ ex' = ex
       \/ \E k \in TaskExceptionKinds, m \in Messages :
            pc' = "live_except" /\ ex' = [kind |-> k, msg |-> m]
    /\ UNCHANGED <<live, rebuild, flavor, destination, instance, db_instance,
                   migrations, migration, raised, state_updates, saves, ncalls>>
    /\ UNCHANGED not_migrate_vars

\* LiveMigrationTask.execute(), second part: the live_migration dispatch to
\* the source compute agent.
live_task_dispatch ==
    /\ pc = "live_dispatch"
    /\ calls' = Append(calls, "live_migration")
    /\ \/ pc' = "returned" /\ ex' = ex
       \/ \E k \in DispatchExceptionKinds, m \in Messages :
            pc' = "live_except" /\ ex' = [kind |-> k, msg |-> m]
    /\ UNCHANGED <<live, rebuild, flavor, destination, instance, db_instance,
                   migrations, migration, raised, state_updates, saves, ncalls>>
    /\ UNCHANGED not_migrate_vars

\* the except clauses of _live_migrate
live_migrate_except ==
    /\ pc = "live_except"
    /\ LET updates == live_migrate_updates(ex, instance) IN
       /\ state_updates' = Append(state_updates, updates)
       /\ IF write_rejected(db_instance, updates)
          THEN \* _set_vm_state raises; the statements after it do not run
               /\ raised' = UnexpectedTaskStateError
               /\ UNCHANGED <<db_instance, migrations, saves>>
          ELSE /\ db_instance' = instance_update(db_instance, updates)
               /\ migrations' = migration_save(migrations, migration,
                                               live_migrate_status(ex))
               /\ saves' = saves + 1
               /\ raised' = live_migrate_raise(ex)
    /\ pc' = "raised"
    /\ UNCHANGED <<live, rebuild, flavor, destination, instance, migration,
                   ex, calls, ncalls>>
    /\ UNCHANGED not_migrate_vars

\* MigrationTask.execute(), first part: the select_destinations call
cold_task_schedule ==
    /\ pc = "cold_task"
    /\ calls' = Append(calls, "select_destinations")
    /\ \/ pc' = "cold_dispatch" /\ ex' = ex
       \/ \E k \in TaskExceptionKinds, m \in Messages :
            pc' = "cold_except" /\ ex' = [kind |-> k, msg |-> m]
    /\ UNCHANGED <<live, rebuild, flavor, destination, instance, db_instance,
                   migrations, migration, raised, state_updates, saves, ncalls>>
    /\ UNCHANGED not_migrate_vars

\* MigrationTask.execute(), second part: the prep_resize dispatch
cold_task_dispatch ==
    /\ pc = "cold_dispatch"
    /\ calls' = Append(calls, "prep_resize")
    /\ \/ pc' = "returned" /\ ex' = ex
       \/ \E k \in DispatchExceptionKinds, m \in Messages :
            pc' = "cold_except" /\ ex' = [kind |-> k, msg |-> m]
    /\ UNCHANGED <<live, rebuild, flavor, destination, instance, db_instance,
                   migrations, migration, raised, state_updates, saves, ncalls>>
    /\ UNCHANGED not_migrate_vars

\* the except clauses of _cold_migrate
cold_migrate_except ==
    /\ pc = "cold_except"
    /\ LET updates == cold_migrate_state_updates(ex, instance) IN
       /\ state_updates' = state_updates \o updates
       /\ db_instance' = instance_updates(db_instance, updates)
    /\ raised' = cold_migrate_raise(ex, flavor, instance)
    /\ pc' = "raised"
    /\ UNCHANGED <<live, rebuild, flavor, destination, instance, migrations,
                   migration, ex, calls, saves, ncalls>>
    /\ UNCHANGED not_migrate_vars

\* Another request (the API starting an operation, or another task) writes
\* the task_state of the instance row.
task_state_written_elsewhere ==
    /\ \E ts \in TaskStates \ {db_instance.task_state} :
         db_instance' = [db_instance EXCEPT !.task_state = ts]
    /\ UNCHANGED <<pc, live, rebuild, flavor, destination, instance,
                   migrations, migration, ex, raised, calls, state_updates,
                   saves, ncalls>>
    /\ UNCHANGED not_migrate_vars

Next ==
    \/ migrate_server
    \/ live_task_pre_check
    \/ live_task_dispatch
    \/ live_migrate_except
    \/ cold_task_schedule
    \/ cold_task_dispatch
    \/ cold_migrate_except
    \/ task_state_written_elsewhere

Spec == Init /\ [][Next]_vars

TypeOK ==
    /\ pc \in {"idle", "live_task", "live_dispatch", "live_except",
               "cold_task", "cold_dispatch", "cold_except", "returned",
               "raised"}
    /\ db_instance.task_state \in TaskStates
    /\ migration \in 0..Len(migrations)
    /\ ncalls \in 0..MaxCalls

(***************************************************************************)
(* Properties of the live-migration path.                                  *)
(***************************************************************************)
\* the step in which an except clause of _live_migrate runs
LiveHandlerStep == pc = "live_except" /\ pc' = "raised"

\* the step in which an except clause of _cold_migrate runs
ColdHandlerStep == pc = "cold_except" /\ pc' = "raised"

TerminalFailureStatuses == {"error", "failed", "cancelled"}

\* C1: on the live-migration path, whenever a scheduler or compute-agent call
\* of the task is observed, the call's migration row already exists in the
\* database with status 'pre-migrating', and it exists as soon as the task is
\* built.
C1_RecordBeforeDispatch ==
    [][ /\ (pc' = "live_task") =>
             /\ migration' \in DOMAIN migrations'
             /\ migrations'[migration'].status = "pre-migrating"
        /\ (pc \in {"live_task", "live_dispatch"} /\ Len(calls') > Len(calls)) =>
             /\ migration \in DOMAIN migrations
             /\ migrations[migration].status = "pre-migrating"
             /\ migrations[migration].instance_uuid = instance.uuid ]_vars

\* a live migration whose dispatch to the compute agent has been observed
C1_Witness ==
    /\ live
    /\ Len(calls) >= 2
    /\ calls[Len(calls)] = "live_migration"
    /\ migrations[migration].status = "pre-migrating"

\* C2: when execute() fails with one of the pre-check/placement failures the
\* claim lists, the handler writes vm_state = vm_state at call time and
\* task_state = None to the instance, sets the migration row to 'error' and
\* re-raises the original exception.
C2_KnownFailureHandled ==
    [][ (LiveHandlerStep /\ ex.kind \in {"NoValidHost", "InstanceInvalidState"}) =>
          /\ db_instance'.vm_state = instance.vm_state
          /\ db_instance'.task_state = NONE
          /\ migrations'[migration].status = "error"
          /\ raised' = ex ]_vars

\* C3: when execute() fails with an exception outside the known set, the
\* handler writes vm_state = ERROR with the instance's task_state kept, sets
\* the migration row to 'failed' and raises MigrationError carrying the text
\* of the original exception.
C3_UnexpectedFailureHandled ==
    [][ (LiveHandlerStep /\ ex.kind = "Exception") =>
          /\ db_instance'.vm_state = ERROR
          /\ db_instance'.task_state = instance.task_state
          /\ migrations'[migration].status = "failed"
          /\ raised' = [kind |-> "MigrationError", msg |-> ex.msg] ]_vars

\* C4: when execute() fails with UnsupportedPolicyException, the failure is
\* handled like a pre-check failure: vm_state reset to its value at call time,
\* migration row 'error', the original exception re-raised.  Stated for the
\* executions in which the instance write is accepted.
C4_PolicyFailureIsPreCheckFamily ==
    [][ (/\ LiveHandlerStep
         /\ ex.kind = "UnsupportedPolicyException"
         /\ db_instance.task_state = MIGRATING) =>
          /\ db_instance'.vm_state = instance.vm_state
          /\ migrations'[migration].status = "error"
          /\ raised' = ex ]_vars

\* C5: whenever the live-migration path raises after the task failed, the
\* instance update of the handler has been applied and the migration row is
\* 'error' or 'failed', also when the conditional instance write is rejected.
C5_StateConsistentWhenRaised ==
    [][ LiveHandlerStep =>
          /\ db_instance' =
               instance_update(db_instance, state_updates'[Len(state_updates')])
          /\ migrations'[migration].status \in {"error", "failed"} ]_vars

\* C6: a migration row in a terminal failure status never changes again and
\* no row is removed; a status change is always from 'pre-migrating' to
\* 'error' or 'failed', and a migrate_server call saves a status at most once.
C6_TerminalStatusIsFinal ==
    [][ /\ Len(migrations') >= Len(migrations)
        /\ \A i \in DOMAIN migrations :
             /\ migrations[i].status \in TerminalFailureStatuses =>
                  migrations'[i].status = migrations[i].status
             /\ migrations'[i].status # migrations[i].status =>
                  /\ migrations[i].status = "pre-migrating"
                  /\ migrations'[i].status \in {"error", "failed"}
                  /\ i = migration
        /\ saves' <= 1 ]_vars

\* two live migrations of the instance have failed, one after the other
C6_Witness ==
    /\ Len(migrations) = 2
    /\ migrations[1].status = "error"
    /\ migrations[2].status = "failed"
    /\ saves = 1

\* C7: the migration row of a live migration has the instance's host as
\* source, the hinted host as destination, type 'live-migration', the
\* instance's uuid, and old and new flavor id both equal to the instance's
\* flavor id.
C7_MigrationRecordFields ==
    migration # 0 =>
        /\ migrations[migration].source_compute = instance.host
        /\ migrations[migration].dest_compute = destination
        /\ migrations[migration].migration_type = "live-migration"
        /\ migrations[migration].instance_uuid = db_instance.uuid
        /\ migrations[migration].old_instance_type_id = db_instance.instance_type_id
        /\ migrations[migration].new_instance_type_id =
               migrations[migration].old_instance_type_id

\* a live migration to another host of an instance whose flavor is not loaded
C7_Witness ==
    /\ pc = "live_task"
    /\ migration # 0
    /\ destination \in Hosts \ {instance.host}
    /\ instance.flavor = 0
    /\ migrations[migration].dest_compute = destination

(***************************************************************************)
(* Properties of the cold-migration path.                                  *)
(***************************************************************************)
\* C8: after execute() fails with NoValidHost, the instance row holds the
\* vm_state the instance had before the call (ACTIVE if it had none) and no
\* task_state, one state update was recorded, and NoValidHost is raised.
C8_NoValidHostResetsState ==
    [][ (ColdHandlerStep /\ ex.kind = "NoValidHost") =>
          /\ db_instance'.vm_state =
               (IF instance.vm_state = NONE THEN ACTIVE ELSE instance.vm_state)
          /\ instance.vm_state # NONE => db_instance'.vm_state = db_instance.vm_state
          /\ db_instance'.task_state = NONE
          /\ Len(state_updates') = 1
          /\ raised'.kind = "NoValidHost" ]_vars

\* a cold migration of an instance object without vm_state failed with
\* NoValidHost while the row still carried the resize task_state
C8_Witness ==
    /\ pc = "raised"
    /\ ~live
    /\ ex.kind = "NoValidHost"
    /\ raised.kind = "NoValidHost"
    /\ instance.vm_state = NONE
    /\ instance.task_state = RESIZE_PREP
    /\ db_instance.vm_state = ACTIVE
    /\ db_instance.task_state = NONE
    /\ Len(state_updates) = 1

\* C9: on NoValidHost the raised reason is the cold-migrate text exactly when
\* the target flavor id equals the instance's flavor id, and the resize text
\* exactly when they differ.
C9_ReasonTellsMigrateFromResize ==
    [][ (ColdHandlerStep /\ ex.kind = "NoValidHost") =>
          /\ (raised'.msg = MSG_COLD_MIGRATE) <=>
                 (flavor.id = db_instance.instance_type_id)
          /\ (raised'.msg = MSG_RESIZE) <=>
                 (flavor.id # db_instance.instance_type_id) ]_vars

\* flavor 5 -> 7 answered with the resize text
C9_Witness ==
    /\ pc = "raised"
    /\ ~live
    /\ ex.kind = "NoValidHost"
    /\ db_instance.instance_type_id = 5
    /\ flavor.id = 7
    /\ raised.msg = MSG_RESIZE

\* C10: after execute() fails with UnsupportedPolicyException, the same
\* state reset as for NoValidHost is recorded and the exception that reaches
\* the caller is the original one.
C10_PolicyFailureResetsAndReraises ==
    [][ (ColdHandlerStep /\ ex.kind = "UnsupportedPolicyException") =>
          /\ db_instance'.vm_state =
               (IF instance.vm_state = NONE THEN ACTIVE ELSE instance.vm_state)
          /\ db_instance'.task_state = NONE
          /\ Len(state_updates') = 1
          /\ raised' = ex ]_vars

\* a cold migration of an instance object without vm_state failed with
\* UnsupportedPolicyException
C10_Witness ==
    /\ pc = "raised"
    /\ ~live
    /\ ex.kind = "UnsupportedPolicyException"
    /\ raised = ex
    /\ instance.vm_state = NONE
    /\ db_instance.vm_state = ACTIVE
    /\ Len(state_updates) = 1

\* C11: after execute() fails with an exception other than NoValidHost and
\* UnsupportedPolicyException, the instance row holds the vm_state the
\* instance had before the call (ACTIVE if it had none) and no task_state,
\* and the original exception is raised.
C11_OtherFailureResetsState ==
    [][ (/\ ColdHandlerStep
         /\ ex.kind \notin {"NoValidHost", "UnsupportedPolicyException"}) =>
          /\ db_instance'.vm_state =
               (IF instance.vm_state = NONE THEN ACTIVE ELSE instance.vm_state)
          /\ db_instance'.task_state = NONE
          /\ raised' = ex ]_vars

\* C12: a failing cold migration records exactly one instance state update,
\* whatever execute() raised, and raises; a cold migration that returned
\* normally had no failing execute() and recorded no update.
C12_ExactlyOneStateUpdate ==
    [][ /\ ColdHandlerStep =>
             /\ state_updates = <<>>
             /\ Len(state_updates') = 1
             /\ raised' # NoException
        /\ (pc' = "cold_except") => (ex' # NoException /\ state_updates' = <<>>)
        /\ (pc' = "returned" /\ ~live') =>
             (ex' = NoException /\ state_updates' = <<>>)
        /\ (pc' = "raised" /\ ~live' /\ ex' # NoException) =>
             Len(state_updates') = 1 ]_vars

\* a cold migration failed at the dispatch, after scheduling had succeeded
C12_Witness ==
    /\ pc = "raised"
    /\ ~live
    /\ calls = <<"select_destinations", "prep_resize">>
    /\ ex.kind = "Exception"
    /\ Len(state_updates) = 1

\* C13 as stated: whatever execute() raised is what reaches the caller, same
\* kind and same content.
C13_CausingErrorReachesCaller ==
    [][ ColdHandlerStep => raised' = ex ]_vars

\* C13 as amended: the error that reaches the caller has the kind of the
\* error execute() raised; for UnsupportedPolicyException and any other
\* exception it is that error itself, for NoValidHost it is a NoValidHost
\* whose reason is the cold-migrate or resize text.
C13_CausingErrorKindReachesCaller ==
    [][ ColdHandlerStep =>
          /\ raised'.kind = ex.kind
          /\ ex.kind # "NoValidHost" => raised' = ex
          /\ ex.kind = "NoValidHost" =>
               raised'.msg \in {MSG_COLD_MIGRATE, MSG_RESIZE} ]_vars

\* an unexpected exception of the scheduling phase reached the caller as it was
C13_Witness ==
    /\ pc = "raised"
    /\ ~live
    /\ calls = <<"select_destinations">>
    /\ ex = [kind |-> "Exception", msg |-> "text-b"]
    /\ raised = ex

(***************************************************************************)
(* Properties of the routing in migrate_server.                            *)
(***************************************************************************)
LivePositions == {"live_task", "live_dispatch", "live_except"}

ColdPositions == {"cold_task", "cold_dispatch", "cold_except"}

\* C14: of the 8 combinations of (live, rebuild, flavor present), live alone
\* runs the live-migration path, flavor alone runs the cold-migration path,
\* and each of the other 6 is rejected with NotImplementedError and runs
\* neither path.
C14_RoutingOnFlags ==
    ncalls > 0 =>
        /\ (live /\ ~rebuild /\ flavor = NoFlavor) =>
             /\ migration # 0
             /\ pc \in LivePositions \cup {"returned", "raised"}
             /\ raised.kind # "NotImplementedError"
             /\ \A i \in DOMAIN calls : calls[i] # "prep_resize"
        /\ (~live /\ ~rebuild /\ flavor # NoFlavor) =>
             /\ migration = 0
             /\ pc \in ColdPositions \cup {"returned", "raised"}
             /\ raised.kind # "NotImplementedError"
             /\ \A i \in DOMAIN calls : calls[i] \in {"select_destinations",
                                                     "prep_resize"}
        /\ (rebuild \/ (live /\ flavor # NoFlavor) \/ (~live /\ flavor = NoFlavor)) =>
             /\ pc = "raised"
             /\ raised.kind = "NotImplementedError"
             /\ migration = 0
             /\ calls = <<>>
             /\ state_updates = <<>>

\* a request with live, rebuild and a flavor all given was rejected
C14_Witness ==
    /\ ncalls > 0
    /\ live
    /\ rebuild
    /\ flavor # NoFlavor
    /\ pc = "raised"
    /\ raised.kind = "NotImplementedError"

(***************************************************************************)
(* Input normalisation of migrate_server, applied to arguments of every    *)
(* shape and again to its own result.                                      *)
(***************************************************************************)
NoInstance == [shape |-> NONE]

\* the attributes _from_db_object is asked to load
ExpectedAttrs == {"metadata", "system_metadata", "info_cache", "security_groups"}

\* the instance argument: absent, an old-world database dict, or an Instance
\* object with the joined attributes loaded or not
InstanceArgs ==
    {NoInstance} \cup
    [shape : {"dict", "object"}, uuid : {Uuid}, vm_state : StableVmStates,
     task_state : TaskStates, loaded : {{}, ExpectedAttrs}]

\* objects.Instance._from_db_object(context, objects.Instance(), instance,
\* expected_attrs=attrs)
from_db_object(i) == [i EXCEPT !.shape = "object", !.loaded = ExpectedAttrs]

\* variant: the isinstance tests left out, every argument given is converted
\* and looked up
normalize_arguments_unconditional(i, f) ==
    [instance |-> IF i # NoInstance THEN from_db_object(i) ELSE i,
     flavor |-> IF f # NoFlavor THEN [shape |-> "object", id |-> f.id] ELSE f,
     conversions |-> IF i # NoInstance THEN 1 ELSE 0,
     lookups |-> IF f # NoFlavor THEN 1 ELSE 0]

\* the two normalisation statements of migrate_server: what the names
\* instance and flavor are bound to afterwards, and the conversions and
\* flavor-by-id lookups made
normalize_arguments(i, f) ==
    [instance |-> IF i # NoInstance /\ i.shape # "object"
                  THEN from_db_object(i) ELSE i,
     flavor |-> normalize_flavor(f),
     conversions |-> IF i # NoInstance /\ i.shape # "object" THEN 1 ELSE 0,
     lookups |-> IF f # NoFlavor /\ f.shape # "object" THEN 1 ELSE 0]

\* every variable of the migrate_server call except the two arguments
migrate_call_idle ==
    /\ pc = "idle"
    /\ live = FALSE
    /\ rebuild = FALSE
    /\ destination = NONE
    /\ db_instance = [uuid |-> Uuid, host |-> SourceHost, vm_state |-> ACTIVE,
                      task_state |-> NONE, instance_type_id |-> 5]
    /\ migrations = <<>>
    /\ migration = 0
    /\ ex = NoException
    /\ raised = NoException
    /\ calls = <<>>
    /\ state_updates = <<>>
    /\ saves = 0
    /\ ncalls = 0

InitNormalize ==
    /\ migrate_call_idle
    /\ instance \in InstanceArgs
    /\ flavor \in FlavorArgs
    /\ normalize_vars_idle
    /\ build_vars_idle
    /\ unshelve_vars_idle
    /\ rebuild_vars_idle
    /\ hyperv_vars_idle

\* lines 531-543 of migrate_server
normalize ==
    /\ passes < MaxPasses
    /\ LET n == normalize_arguments(instance, flavor) IN
       /\ instance' = n.instance
       /\ flavor' = n.flavor
       /\ instance_conversions' = instance_conversions + n.conversions
       /\ flavor_lookups' = flavor_lookups + n.lookups
    /\ passes' = passes + 1
    /\ UNCHANGED <<pc, live, rebuild, destination, db_instance, migrations,
                   migration, ex, raised, calls, state_updates, saves, ncalls>>
    /\ UNCHANGED <<build_vars, unshelve_vars, rebuild_vars, hyperv_vars>>

NextNormalize == normalize

SpecNormalize == InitNormalize /\ [][NextNormalize]_vars

\* C15: an Instance object and a Flavor object pass through the
\* normalisation unchanged, without conversion and without flavor lookup, and
\* normalising the result of a normalisation changes nothing and looks
\* nothing up.
C15_NormalizationIdempotent ==
    [][ (passes' = passes + 1) =>
          /\ (instance = NoInstance \/ instance.shape = "object") =>
               (instance' = instance /\ instance_conversions' = instance_conversions)
          /\ (flavor = NoFlavor \/ flavor.shape = "object") =>
               (flavor' = flavor /\ flavor_lookups' = flavor_lookups)
          /\ passes >= 1 =>
               /\ instance' = instance
               /\ flavor' = flavor
               /\ instance_conversions' = instance_conversions
               /\ flavor_lookups' = flavor_lookups ]_vars

\* a legacy dict instance and a legacy dict flavor were normalised, and the
\* second normalisation converted and looked up nothing
C15_Witness ==
    /\ passes = 2
    /\ instance_conversions = 1
    /\ flavor_lookups = 1
    /\ instance.shape = "object"
    /\ flavor.shape = "object"

(***************************************************************************)
(* build_instances: one scheduling request for the batch, then one         *)
(* refresh and one build_and_run_instance cast per (instance, host) pair.  *)
(***************************************************************************)
BUILDING == "building"

SCHEDULING == "scheduling"

\* every variable of the migrate_server call
migrate_vars_idle ==
    /\ migrate_call_idle
    /\ instance = [uuid |-> NONE, host |-> NONE, vm_state |-> NONE,
                   task_state |-> NONE, instance_type_id |-> 0, flavor |-> 0]
    /\ flavor = NoFlavor

\* the filter properties a build request carries: a first attempt, or a
\* reschedule that already tried host1; the flavor absent, a legacy dict or a
\* Flavor object
FilterPropertiesArgs ==
    {[instance_type |-> f, num_attempts |-> r[1], retry_hosts |-> r[2],
      limits |-> NONE] :
        f \in {NoFlavor, [shape |-> "dict", id |-> 5],
               [shape |-> "object", id |-> 5]},
        r \in {<<0, <<>>>>, <<1, <<"host1">>>>}}

\* the steps of the try block of build_instances that can raise, with what
\* they raise here
SchedulingFailures ==
    {<<"setup_instance_group", "UnsupportedPolicyException">>,
     <<"populate_retry", "NoValidHost">>,
     <<"select_destinations", "NoValidHost">>,
     <<"select_destinations", "Exception">>}

\* sequences over S of length 0..n
RECURSIVE SeqsUpTo(_, _)
SeqsUpTo(S, n) ==
    IF n = 0
    THEN {<<>>}
    ELSE LET shorter == SeqsUpTo(S, n - 1) IN
         shorter \cup {Append(q, x) : q \in shorter, x \in S}

\* filter_properties = dict(filter_properties, instance_type=flavor) after the
\* flavor lookup for a legacy dict
normalize_filter_properties(fp) ==
    [fp EXCEPT !.instance_type = normalize_flavor(fp.instance_type)]

\* scheduler_utils.populate_retry: one more attempt counted
populate_retry(fp) == [fp EXCEPT !.num_attempts = @ + 1]

\* scheduler_utils.populate_filter_properties: the selected host added to the
\* hosts tried, and its limits recorded
populate_filter_properties(fp, host) ==
    [fp EXCEPT !.retry_hosts = Append(@, host), !.limits = host]

\* variant: one request per instance
placement_requests_per_instance(insts, fp) ==
    [k \in 1..Len(insts) |-> [instances |-> <<insts[k]>>, filter_properties |-> fp]]

\* the select_destinations requests of one build_instances call: one request
\* built from all the instances
placement_requests(insts, fp) ==
    <<[instances |-> insts, filter_properties |-> fp]>>

\* variant: only instances[0] is set to ERROR
build_failure_updates_first_only(insts) ==
    <<[instance |-> insts[1],
       updates |-> [vm_state |-> ERROR, task_state |-> NONE,
                    expected_task_state |-> NONE]]>>

\* the except clause of build_instances: one update per instance of the batch
build_failure_updates(insts) ==
    [k \in 1..Len(insts) |->
        [instance |-> insts[k],
         updates |-> [vm_state |-> ERROR, task_state |-> NONE,
                      expected_task_state |-> NONE]]]

\* the rows after the updates of the except clause
RECURSIVE rows_updated(_, _)
rows_updated(rows, ups) ==
    IF ups = <<>>
    THEN rows
    ELSE rows_updated(
             [rows EXCEPT ![Head(ups).instance] =
                              instance_update(@, Head(ups).updates)],
             Tail(ups))

\* itertools.izip(instances, hosts): the number of pairs
num_pairs(insts, hs) == IF Len(insts) < Len(hs) THEN Len(insts) ELSE Len(hs)

\* variant: InstanceNotFound is not caught and leaves build_instances
after_instance_not_found_raise(k, last) == [pc |-> "raised", next |-> k]

\* 'continue' after InstanceNotFound: on to the next pair, or out of the loop
after_instance_not_found(k, last) ==
    [pc |-> IF k < last THEN "dispatching" ELSE "returned", next |-> k + 1]

\* after the cast: on to the next pair, or out of the loop
after_dispatch(k, last) ==
    [pc |-> IF k < last THEN "dispatching" ELSE "returned", next |-> k + 1]

\* variant: populate_filter_properties applied to the batch filter properties
\* themselves, no copy made
filter_properties_after_pair_shared(fp, local) == local

\* the batch filter properties after a pair was handled: the annotations went
\* to the deep copy, the batch-level value is as before
filter_properties_after_pair(fp, local) == fp

InitBuild ==
    /\ migrate_vars_idle
    /\ normalize_vars_idle
    /\ build_vars_idle
    /\ unshelve_vars_idle
    /\ rebuild_vars_idle
    /\ hyperv_vars_idle

\* build_instances up to the select_destinations call: request spec, flavor
\* normalisation, instance-group setup and retry check; on a failure of one
\* of these, the except clause.
build_instances ==
    /\ build_pc = "idle"
    /\ \E n \in 1..MaxInstances, fp \in FilterPropertiesArgs :
         LET insts == [k \in 1..n |-> k] IN
         /\ instances' = insts
         /\ refreshed' = [k \in 1..n |-> NONE]
         /\ \/ /\ filter_properties' = populate_retry(normalize_filter_properties(fp))
               /\ instance_rows' = [k \in 1..n |->
                      [exists |-> TRUE, vm_state |-> BUILDING,
                       task_state |-> SCHEDULING]]
               /\ placement_calls' = placement_calls \o
                      placement_requests(insts, filter_properties')
               /\ build_pc' = "selecting"
               /\ UNCHANGED <<build_updates, build_failed_at>>
            \/ \E f \in {x \in SchedulingFailures : x[1] # "select_destinations"} :
               /\ filter_properties' = normalize_filter_properties(fp)
               /\ build_failed_at' = f[1]
               /\ build_updates' = build_failure_updates(insts)
               /\ instance_rows' = rows_updated(
                      [k \in 1..n |->
                          [exists |-> TRUE, vm_state |-> BUILDING,
                           task_state |-> SCHEDULING]],
                      build_updates')
               /\ build_pc' = "returned"
               /\ UNCHANGED placement_calls
    /\ UNCHANGED <<hosts, next_pair, build_dispatches>>
    /\ UNCHANGED not_build_vars

\* select_destinations answers with hosts: the loop over the pairs starts
select_destinations_returns ==
    /\ build_pc = "selecting"
    /\ \E hs \in SeqsUpTo(Hosts, Len(instances)) :
         /\ hosts' = hs
         /\ next_pair' = 1
         /\ build_pc' = IF num_pairs(instances, hs) = 0
                        THEN "returned" ELSE "dispatching"
    /\ UNCHANGED <<instances, instance_rows, filter_properties, refreshed,
                   placement_calls, build_dispatches, build_updates,
                   build_failed_at>>
    /\ UNCHANGED not_build_vars

\* select_destinations raises: the except clause of build_instances
select_destinations_raises ==
    /\ build_pc = "selecting"
    /\ \E f \in {x \in SchedulingFailures : x[1] = "select_destinations"} :
         build_failed_at' = f[1]
    /\ build_updates' = build_failure_updates(instances)
    /\ instance_rows' = rows_updated(instance_rows, build_updates')
    /\ build_pc' = "returned"
    /\ UNCHANGED <<instances, filter_properties, hosts, next_pair, refreshed,
                   placement_calls, build_dispatches>>
    /\ UNCHANGED not_build_vars

\* one iteration of the loop over izip(instances, hosts)
build_and_run_pair ==
    /\ build_pc = "dispatching"
    /\ LET k == next_pair
           last == num_pairs(instances, hosts)
           local_filter_props ==
               populate_filter_properties(filter_properties, hosts[k])
       IN IF ~instance_rows[instances[k]].exists
          THEN \* instance.refresh() raises InstanceNotFound
               /\ refreshed' = [refreshed EXCEPT ![k] = "not_found"]
               /\ build_pc' = after_instance_not_found(k, last).pc
               /\ next_pair' = after_instance_not_found(k, last).next
               /\ UNCHANGED <<build_dispatches, filter_properties>>
          ELSE /\ refreshed' = [refreshed EXCEPT ![k] = "ok"]
               /\ build_dispatches' = Append(build_dispatches,
                      [instance |-> instances[k], host |-> hosts[k],
                       filter_properties |-> local_filter_props])
               /\ filter_properties' = filter_properties_after_pair(
                      filter_properties, local_filter_props)
               /\ build_pc' = after_dispatch(k, last).pc
               /\ next_pair' = after_dispatch(k, last).next
    /\ UNCHANGED <<instances, instance_rows, hosts, placement_calls,
                   build_updates, build_failed_at>>
    /\ UNCHANGED not_build_vars

\* an instance of the batch is deleted by another request
instance_deleted_elsewhere ==
    /\ build_pc \in {"selecting", "dispatching"}
    /\ \E i \in DOMAIN instance_rows :
         /\ instance_rows[i].exists
         /\ instance_rows' = [instance_rows EXCEPT ![i].exists = FALSE]
    /\ UNCHANGED <<build_pc, instances, filter_properties, hosts, next_pair,
                   refreshed, placement_calls, build_dispatches, build_updates,
                   build_failed_at>>
    /\ UNCHANGED not_build_vars

NextBuild ==
    \/ build_instances
    \/ select_destinations_returns
    \/ select_destinations_raises
    \/ build_and_run_pair
    \/ instance_deleted_elsewhere

SpecBuild == InitBuild /\ [][NextBuild]_vars

\* the casts made for the instance at position k of the batch
dispatches_of(k) ==
    {d \in DOMAIN build_dispatches :
        build_dispatches[d].instance = instances[k]}

\* C16: an instance whose refresh succeeded has exactly one
\* build_and_run_instance cast, an instance found deleted at its refresh has
\* none, a deleted instance does not keep the pairs after it from being
\* handled, and no exception leaves build_instances.
C16_OneDispatchPerRefreshedInstance ==
    /\ build_pc # "raised"
    /\ \A k \in 1..Len(instances) :
         Cardinality(dispatches_of(k)) = IF refreshed[k] = "ok" THEN 1 ELSE 0
    /\ (build_pc = "returned" /\ build_failed_at = NONE)
         => \A k \in 1..num_pairs(instances, hosts) : refreshed[k] # NONE

\* three instances, the second deleted before its refresh: two casts, for the
\* first and the third
C16_Witness ==
    /\ build_pc = "returned"
    /\ refreshed = <<"ok", "not_found", "ok">>
    /\ Len(build_dispatches) = 2
    /\ build_dispatches[1].instance = 1
    /\ build_dispatches[2].instance = 3

\* the _set_vm_state_and_notify calls made for the instance at position k
updates_of(k) ==
    {u \in DOMAIN build_updates : build_updates[u].instance = instances[k]}

\* C17: when instance-group setup, the retry check or select_destinations
\* raised, every instance of the batch was updated exactly once, to
\* vm_state ERROR with task_state None, nothing was cast, and
\* build_instances has returned without raising.
C17_SchedulingFailureErrorsBatch ==
    build_failed_at # NONE =>
        /\ build_pc = "returned"
        /\ build_dispatches = <<>>
        /\ \A k \in 1..Len(instances) :
             /\ Cardinality(updates_of(k)) = 1
             /\ \A u \in updates_of(k) :
                  /\ build_updates[u].updates.vm_state = ERROR
                  /\ build_updates[u].updates.task_state = NONE
             /\ instance_rows[instances[k]].vm_state = ERROR
             /\ instance_rows[instances[k]].task_state = NONE

\* select_destinations raised for a batch of three
C17_Witness ==
    /\ build_failed_at = "select_destinations"
    /\ Len(instances) = 3
    /\ Len(build_updates) = 3
    /\ build_pc = "returned"

\* C18 as stated: a build_instances call that is over has called
\* select_destinations exactly once, with one request covering all the
\* instances of the batch and the one filter-properties context of the batch.
C18_ExactlyOnePlacementCall ==
    build_pc = "returned" =>
        /\ Len(placement_calls) = 1
        /\ placement_calls[1].instances = instances
        /\ placement_calls[1].filter_properties = filter_properties

\* C18, amended: select_destinations is called at most once per call, and
\* exactly once unless instance-group setup or the retry check raised before
\* it; the request covers all the instances of the batch and carries the one
\* filter-properties context of the batch, whatever the size of the batch.
C18_AtMostOnePlacementCall ==
    /\ Len(placement_calls) <= 1
    /\ (/\ build_pc # "idle"
        /\ build_failed_at \notin {"setup_instance_group", "populate_retry"})
         => Len(placement_calls) = 1
    /\ build_failed_at \in {"setup_instance_group", "populate_retry"}
         => placement_calls = <<>>
    /\ \A c \in DOMAIN placement_calls :
         /\ placement_calls[c].instances = instances
         /\ placement_calls[c].filter_properties = filter_properties

\* a batch of three, all three cast, after one select_destinations call
C18_Witness ==
    /\ build_pc = "returned"
    /\ Len(instances) = 3
    /\ Len(build_dispatches) = 3
    /\ Len(placement_calls) = 1

\* C19: the filter properties cast with an instance are the batch filter
\* properties, as they were handed to select_destinations, plus the
\* annotations of that instance's host only (the host added to the hosts
\* tried, its limits); nothing of another instance's host is in them, and
\* the batch-level filter properties stay as they were.
C19_PerInstanceFilterProperties ==
    \A d \in DOMAIN build_dispatches :
        LET batch == placement_calls[1].filter_properties
            local == build_dispatches[d].filter_properties
        IN /\ local.retry_hosts = Append(batch.retry_hosts, build_dispatches[d].host)
           /\ local.limits = build_dispatches[d].host
           /\ local.instance_type = batch.instance_type
           /\ local.num_attempts = batch.num_attempts
           /\ filter_properties = batch
           /\ batch.limits = NONE

\* two instances cast to two different hosts, on a reschedule that had
\* already tried a host
C19_Witness ==
    /\ build_pc = "returned"
    /\ Len(build_dispatches) >= 2
    /\ build_dispatches[1].host # build_dispatches[2].host
    /\ filter_properties.retry_hosts # <<>>

(***************************************************************************)
(* unshelve_instance: calls in flight for one instance, each holding the   *)
(* instance object it was given, all writing the same database row.        *)
(***************************************************************************)
SHELVED == "shelved"

SHELVED_OFFLOADED == "shelved_offloaded"

UNSHELVING == "unshelving"

POWERING_ON == "powering-on"

ImageId == "image-1"

\* the vm_states an unshelve request can find: the two shelved ones and one
\* other
UnshelveVmStates == {SHELVED, SHELVED_OFFLOADED, ACTIVE}

\* variant: only NoValidHost is taken for a placement failure
UnshelvePlacementFailuresNoPolicy == {"NoValidHost"}

\* the exceptions the first except clause of the try block names
UnshelvePlacementFailures == {"NoValidHost", "UnsupportedPolicyException"}

\* variant: a failure leaves the instance as it is
unshelve_failure_changes_none == [x \in {} |-> NONE]

\* both except clauses of the try block: instance.task_state = None
unshelve_failure_changes == [task_state |-> NONE]

\* Instance.save(expected_task_state=...): refused when the row holds another
\* task_state
save_rejected(row, expected_task_state) ==
    /\ expected_task_state # NONE
    /\ row.task_state # expected_task_state

\* Instance.save(): the fields changed on the object are written to the row
save_changes(row, changes) ==
    [f \in DOMAIN row |-> IF f \in DOMAIN changes THEN changes[f] ELSE row[f]]

\* variant: the save of the SHELVED path expects nothing
shelved_expected_task_state_none == NONE

\* instance.save(expected_task_state=task_states.UNSHELVING)
shelved_expected_task_state == UNSHELVING

\* variant: the ImageNotFound handler clears task_state and leaves vm_state
image_not_found_changes_task_state == [task_state |-> NONE]

\* the ImageNotFound handler: instance.vm_state = vm_states.ERROR
image_not_found_changes == [vm_state |-> ERROR]

\* the candidates select_destinations can return, each a host with its node
HostStates ==
    {[host |-> "host1", nodename |-> "node1"],
     [host |-> "host2", nodename |-> "node2"]}

\* what select_destinations returns for one instance: one candidate or more
CandidateLists ==
    {<<a>> : a \in HostStates} \cup
    {q \in {<<a, b>> : a \in HostStates, b \in HostStates} : q[1] # q[2]}

\* variant: the last candidate is taken
last_candidate(hs) == hs[Len(hs)]

\* host_state = hosts[0]
first_candidate(hs) == hs[1]

\* the request _schedule_instances makes for the one instance, with filter
\* properties that are new and went through populate_retry
unshelve_placement_request ==
    [num_instances |-> 1,
     filter_properties |-> populate_retry(NoFilterProperties)]

\* variant: the else branch leaves the instance as it is
invalid_state_changes_none == [x \in {} |-> NONE]

\* the else branch: instance.vm_state = vm_states.ERROR
invalid_state_changes == [vm_state |-> ERROR]

\* the steps of _schedule_instances that can raise, with what they raise here
UnshelveSchedulingFailures ==
    {<<"setup_instance_group", "UnsupportedPolicyException">>,
     <<"select_destinations", "NoValidHost">>,
     <<"select_destinations", "Exception">>}

\* variant: the refused save is ignored and the call goes on
after_rejected_save_ignored == "start_instance"

\* nothing around the save of the SHELVED branch catches
\* UnexpectedTaskStateError: it leaves unshelve_instance
after_rejected_save == "raised"

unshelve_event(p, op, detail) == [proc |-> p, op |-> op, detail |-> detail]

InitUnshelve ==
    /\ migrate_vars_idle
    /\ normalize_vars_idle
    /\ build_vars_idle
    /\ rebuild_vars_idle
    /\ hyperv_vars_idle
    /\ \E vs \in UnshelveVmStates, img \in {NONE, ImageId} :
         /\ unshelve_db = [vm_state |-> vs, task_state |-> UNSHELVING]
         /\ unshelve_args = [p \in Callers |->
                [vm_state |-> vs, task_state |-> UNSHELVING,
                 shelved_image_id |-> img]]
    /\ unshelve_pc = [p \in Callers |-> "called"]
    /\ unshelve_image = [p \in Callers |-> NONE]
    /\ unshelve_hosts = [p \in Callers |-> NONE]
    /\ unshelve_events = <<>>
    /\ unshelve_raised = [p \in Callers |-> NONE]

\* the SHELVED branch up to the save
unshelve_shelved(p) ==
    /\ unshelve_args[p].vm_state = SHELVED
    /\ unshelve_args' = [unshelve_args EXCEPT ![p].task_state = POWERING_ON]
    /\ IF save_rejected(unshelve_db, shelved_expected_task_state)
       THEN /\ unshelve_raised' = [unshelve_raised EXCEPT
                                      ![p] = "UnexpectedTaskStateError"]
            /\ unshelve_pc' = [unshelve_pc EXCEPT ![p] = after_rejected_save]
            /\ UNCHANGED <<unshelve_db, unshelve_events>>
       ELSE /\ unshelve_db' = save_changes(unshelve_db,
                                           [task_state |-> POWERING_ON])
            /\ unshelve_events' = Append(unshelve_events,
                   unshelve_event(p, "save", [task_state |-> POWERING_ON]))
            /\ unshelve_pc' = [unshelve_pc EXCEPT ![p] = "start_instance"]
            /\ UNCHANGED unshelve_raised
    /\ UNCHANGED <<unshelve_image, unshelve_hosts>>

\* the SHELVED_OFFLOADED branch up to the scheduling: the image lookup when a
\* shelved image id is recorded
unshelve_offloaded(p) ==
    /\ unshelve_args[p].vm_state = SHELVED_OFFLOADED
    /\ IF unshelve_args[p].shelved_image_id = NONE
       THEN /\ unshelve_pc' = [unshelve_pc EXCEPT ![p] = "schedule"]
            /\ UNCHANGED <<unshelve_args, unshelve_db, unshelve_image,
                           unshelve_events, unshelve_raised>>
       ELSE \/ /\ unshelve_image' = [unshelve_image EXCEPT
                                        ![p] = unshelve_args[p].shelved_image_id]
               /\ unshelve_events' = Append(unshelve_events,
                      unshelve_event(p, "image_get",
                                     unshelve_args[p].shelved_image_id))
               /\ unshelve_pc' = [unshelve_pc EXCEPT ![p] = "schedule"]
               /\ UNCHANGED <<unshelve_args, unshelve_db, unshelve_raised>>
            \/ \* ImageNotFound
               /\ unshelve_args' = [unshelve_args EXCEPT
                      ![p] = save_changes(@, image_not_found_changes)]
               /\ unshelve_db' = save_changes(unshelve_db,
                                              image_not_found_changes)
               /\ unshelve_events' = unshelve_events \o
                      <<unshelve_event(p, "image_get",
                                       unshelve_args[p].shelved_image_id),
                        unshelve_event(p, "save", image_not_found_changes)>>
               /\ unshelve_raised' = [unshelve_raised EXCEPT
                                         ![p] = "UnshelveException"]
               /\ unshelve_pc' = [unshelve_pc EXCEPT ![p] = "raised"]
               /\ UNCHANGED unshelve_image
    /\ UNCHANGED unshelve_hosts

\* the else branch: neither SHELVED nor SHELVED_OFFLOADED
unshelve_other(p) ==
    /\ unshelve_args[p].vm_state \notin {SHELVED, SHELVED_OFFLOADED}
    /\ unshelve_args' = [unshelve_args EXCEPT
           ![p] = save_changes(@, invalid_state_changes)]
    /\ unshelve_db' = save_changes(unshelve_db, invalid_state_changes)
    /\ unshelve_events' = Append(unshelve_events,
           unshelve_event(p, "save", invalid_state_changes))
    /\ unshelve_pc' = [unshelve_pc EXCEPT ![p] = "returned"]
    /\ UNCHANGED <<unshelve_image, unshelve_hosts, unshelve_raised>>

\* unshelve_instance from its start to its first save or lookup
unshelve_instance ==
    \E p \in Callers :
        /\ unshelve_pc[p] = "called"
        /\ \/ unshelve_shelved(p)
           \/ unshelve_offloaded(p)
           \/ unshelve_other(p)
        /\ UNCHANGED not_unshelve_vars

\* self.compute_rpcapi.start_instance(context, instance)
unshelve_start_instance ==
    \E p \in Callers :
        /\ unshelve_pc[p] = "start_instance"
        /\ unshelve_events' = Append(unshelve_events,
               unshelve_event(p, "start_instance", NONE))
        /\ unshelve_pc' = [unshelve_pc EXCEPT ![p] = "returned"]
        /\ UNCHANGED <<unshelve_args, unshelve_db, unshelve_image,
                       unshelve_hosts, unshelve_raised>>
        /\ UNCHANGED not_unshelve_vars

\* what a failure inside the try block adds to the events: the exception
\* raised there, then the save of the except clause
unshelve_failure_events(p, kind) ==
    <<unshelve_event(p, "raises", kind),
      unshelve_event(p, "save", unshelve_failure_changes)>>

\* the handlers of the try block of the SHELVED_OFFLOADED branch: task_state
\* cleared and saved; a placement failure is swallowed, any other exception
\* is raised again
unshelve_failed(p, kind) ==
    /\ unshelve_args' = [unshelve_args EXCEPT
           ![p] = save_changes(@, unshelve_failure_changes)]
    /\ unshelve_db' = save_changes(unshelve_db, unshelve_failure_changes)
    /\ IF kind \in UnshelvePlacementFailures
       THEN /\ unshelve_pc' = [unshelve_pc EXCEPT ![p] = "returned"]
            /\ UNCHANGED unshelve_raised
       ELSE /\ unshelve_pc' = [unshelve_pc EXCEPT ![p] = "raised"]
            /\ unshelve_raised' = [unshelve_raised EXCEPT ![p] = kind]

\* populate_retry on fresh filter properties and _schedule_instances for the
\* one instance
unshelve_schedule ==
    \E p \in Callers :
        /\ unshelve_pc[p] = "schedule"
        /\ \/ \E hs \in CandidateLists :
                /\ unshelve_hosts' = [unshelve_hosts EXCEPT ![p] = hs]
                /\ unshelve_events' = Append(unshelve_events,
                       unshelve_event(p, "select_destinations",
                                      unshelve_placement_request))
                /\ unshelve_pc' = [unshelve_pc EXCEPT ![p] = "dispatch"]
                /\ UNCHANGED <<unshelve_args, unshelve_db, unshelve_raised>>
           \/ \E f \in UnshelveSchedulingFailures :
                /\ unshelve_failed(p, f[2])
                /\ unshelve_events' = unshelve_events \o
                       (IF f[1] = "select_destinations"
                        THEN <<unshelve_event(p, "select_destinations",
                                              unshelve_placement_request)>>
                        ELSE <<>>) \o
                       unshelve_failure_events(p, f[2])
                /\ UNCHANGED unshelve_hosts
        /\ UNCHANGED unshelve_image
        /\ UNCHANGED not_unshelve_vars

\* populate_filter_properties with hosts[0] and the unshelve_instance cast
unshelve_dispatch ==
    \E p \in Callers :
        /\ unshelve_pc[p] = "dispatch"
        /\ \/ /\ unshelve_events' = Append(unshelve_events,
                     unshelve_event(p, "unshelve_instance",
                         [host |-> first_candidate(unshelve_hosts[p]).host,
                          node |-> first_candidate(unshelve_hosts[p]).nodename,
                          image |-> unshelve_image[p],
                          filter_properties |->
                              populate_filter_properties(
                                  unshelve_placement_request.filter_properties,
                                  first_candidate(unshelve_hosts[p]).host)]))
              /\ unshelve_pc' = [unshelve_pc EXCEPT ![p] = "returned"]
              /\ UNCHANGED <<unshelve_args, unshelve_db, unshelve_raised>>
           \/ /\ unshelve_failed(p, "Exception")
              /\ unshelve_events' = unshelve_events \o
                     unshelve_failure_events(p, "Exception")
        /\ UNCHANGED <<unshelve_image, unshelve_hosts>>
        /\ UNCHANGED not_unshelve_vars

\* another request clears the task_state of the instance
unshelve_task_state_cleared_elsewhere ==
    /\ unshelve_db.task_state # NONE
    /\ \E p \in Callers : unshelve_pc[p] \notin {"returned", "raised"}
    /\ unshelve_db' = [unshelve_db EXCEPT !.task_state = NONE]
    /\ UNCHANGED <<unshelve_pc, unshelve_args, unshelve_image,
                   unshelve_hosts, unshelve_events, unshelve_raised>>
    /\ UNCHANGED not_unshelve_vars

NextUnshelve ==
    \/ unshelve_instance
    \/ unshelve_start_instance
    \/ unshelve_schedule
    \/ unshelve_dispatch
    \/ unshelve_task_state_cleared_elsewhere

SpecUnshelve == InitUnshelve /\ [][NextUnshelve]_vars

\* the events of caller p with one of the given operations
unshelve_events_of(p, ops) ==
    {e \in DOMAIN unshelve_events :
        unshelve_events[e].proc = p /\ unshelve_events[e].op \in ops}

\* the step in which a caller on the SHELVED path has its save accepted
ShelvedSaveStep ==
    \E p \in Callers :
        /\ unshelve_pc[p] = "called"
        /\ unshelve_pc'[p] = "start_instance"

\* what holds in every state of a call made for a SHELVED instance
ShelvedPathOrder ==
    \A p \in Callers :
        unshelve_args[p].vm_state = SHELVED =>
            /\ unshelve_events_of(p, {"select_destinations", "image_get",
                                      "unshelve_instance"}) = {}
            /\ \A e \in unshelve_events_of(p, {"start_instance"}) :
                 \E v \in unshelve_events_of(p, {"save"}) :
                     /\ v < e
                     /\ unshelve_events[v].detail = [task_state |-> POWERING_ON]
            /\ unshelve_pc[p] = "returned"
                 => Cardinality(unshelve_events_of(p, {"start_instance"})) = 1

\* C20: a call for a SHELVED instance saves task_state POWERING_ON, the save
\* going through only on a row whose task_state is UNSHELVING, and casts
\* start_instance after that save; it makes no placement call and no image
\* lookup.
C20_ShelvedSavesThenStarts ==
    /\ []ShelvedPathOrder
    /\ [][ShelvedSaveStep =>
            /\ unshelve_db.task_state = UNSHELVING
            /\ unshelve_db'.task_state = POWERING_ON
            /\ unshelve_db'.vm_state = SHELVED]_vars

\* a call for a SHELVED instance has returned after its save and its cast
C20_Witness ==
    \E p \in Callers :
        /\ unshelve_args[p].vm_state = SHELVED
        /\ unshelve_pc[p] = "returned"
        /\ unshelve_db.task_state = POWERING_ON
        /\ \E v, e \in DOMAIN unshelve_events :
             /\ v < e
             /\ unshelve_events[v] = unshelve_event(p, "save",
                                         [task_state |-> POWERING_ON])
             /\ unshelve_events[e] = unshelve_event(p, "start_instance", NONE)

\* the step in which a call ends with UnshelveException
ImageNotFoundStep ==
    \E p \in Callers :
        /\ unshelve_raised[p] = NONE
        /\ unshelve_raised'[p] = "UnshelveException"

\* what holds of a call that has raised UnshelveException: the lookup was
\* made for the recorded image id, vm_state ERROR was saved after it, and
\* there was neither a placement call nor a cast
ImageNotFoundTrace ==
    \A p \in Callers :
        unshelve_raised[p] = "UnshelveException" =>
            /\ unshelve_pc[p] = "raised"
            /\ unshelve_args[p].shelved_image_id # NONE
            /\ unshelve_args[p].vm_state = ERROR
            /\ unshelve_events_of(p, {"select_destinations",
                    "unshelve_instance", "start_instance"}) = {}
            /\ \E g \in unshelve_events_of(p, {"image_get"}) :
                 \E v \in unshelve_events_of(p, {"save"}) :
                     /\ g < v
                     /\ unshelve_events[v].detail = [vm_state |-> ERROR]

\* C21: a call for a SHELVED_OFFLOADED instance whose recorded shelved image
\* id does not resolve writes vm_state ERROR to the row, then raises
\* UnshelveException; it makes no placement call and no unshelve cast.
C21_ImageNotFoundErrorsInstance ==
    /\ []ImageNotFoundTrace
    /\ [][ImageNotFoundStep =>
            /\ unshelve_db.vm_state = SHELVED_OFFLOADED
                 \/ unshelve_db.vm_state = ERROR
            /\ unshelve_db'.vm_state = ERROR
            /\ unshelve_db'.task_state = unshelve_db.task_state]_vars

\* a call raised UnshelveException on a row that was SHELVED_OFFLOADED
C21_Witness ==
    \E p \in Callers :
        /\ unshelve_raised[p] = "UnshelveException"
        /\ unshelve_db.vm_state = ERROR
        /\ Len(unshelve_events) = 2

\* the calls that went past the image lookup of the SHELVED_OFFLOADED branch
PastImageLookup(p) ==
    /\ unshelve_args[p].vm_state = SHELVED_OFFLOADED
    /\ unshelve_pc[p] \in {"dispatch", "returned", "raised"}

\* C22: a call for a SHELVED_OFFLOADED instance whose image was found, or
\* that has no shelved image id, and to which candidates came back, has made
\* one placement call, for the one instance and with a retry context of its
\* own; when the cast went out, there is one unshelve_instance cast, after
\* the placement call, to the host and node of the first candidate, with
\* the image looked up.
C22_OffloadedSchedulesThenDispatches ==
    \A p \in Callers :
        /\ Cardinality(unshelve_events_of(p, {"unshelve_instance"})) <= 1
        /\ Cardinality(unshelve_events_of(p, {"select_destinations"})) <= 1
        /\ \A e \in unshelve_events_of(p, {"select_destinations"}) :
             unshelve_events[e].detail = unshelve_placement_request
        /\ (PastImageLookup(p) /\ unshelve_hosts[p] # NONE) =>
             Cardinality(unshelve_events_of(p, {"select_destinations"})) = 1
        /\ (PastImageLookup(p) /\ unshelve_pc[p] = "returned"
              /\ unshelve_hosts[p] # NONE) =>
             Cardinality(unshelve_events_of(p, {"unshelve_instance"})) = 1
        /\ \A e \in unshelve_events_of(p, {"unshelve_instance"}) :
             /\ \E c \in unshelve_events_of(p, {"select_destinations"}) : c < e
             /\ unshelve_events[e].detail.host = unshelve_hosts[p][1].host
             /\ unshelve_events[e].detail.node = unshelve_hosts[p][1].nodename
             /\ unshelve_events[e].detail.image = unshelve_image[p]
             /\ unshelve_image[p] = unshelve_args[p].shelved_image_id

\* two candidates came back and the cast went to the first
C22_Witness ==
    \E p \in Callers :
        /\ unshelve_pc[p] = "returned"
        /\ unshelve_hosts[p] # NONE
        /\ Len(unshelve_hosts[p]) = 2
        /\ unshelve_image[p] = ImageId
        /\ unshelve_events_of(p, {"unshelve_instance"}) # {}

\* the step in which a call made for an instance that is neither SHELVED nor
\* SHELVED_OFFLOADED runs
InvalidStateStep(p) ==
    /\ unshelve_pc[p] = "called"
    /\ unshelve_args[p].vm_state \notin {SHELVED, SHELVED_OFFLOADED}
    /\ unshelve_pc'[p] # "called"

\* C23: a call for an instance that is neither SHELVED nor SHELVED_OFFLOADED
\* sets vm_state ERROR on the instance, writes it to the row and returns;
\* it makes no placement call and no cast to a compute host.
C23_InvalidStateErrorsInstance ==
    [][\A p \in Callers :
          InvalidStateStep(p) =>
              /\ unshelve_args'[p].vm_state = ERROR
              /\ unshelve_db'.vm_state = ERROR
              /\ unshelve_pc'[p] = "returned"
              /\ unshelve_raised'[p] = NONE
              /\ unshelve_events' = Append(unshelve_events,
                     unshelve_event(p, "save", [vm_state |-> ERROR]))
              /\ unshelve_events_of(p, {"select_destinations", "image_get",
                     "unshelve_instance", "start_instance"}) = {}]_vars

\* a call found the instance ACTIVE and left the row in ERROR
C23_Witness ==
    \E p \in Callers :
        /\ unshelve_pc[p] = "returned"
        /\ unshelve_args[p].vm_state = ERROR
        /\ unshelve_args[p].task_state = UNSHELVING
        /\ unshelve_db.vm_state = ERROR
        /\ unshelve_events_of(p, {"image_get", "select_destinations"}) = {}

(***************************************************************************)
(* rebuild_instance: to the host given, or to the first candidate of one   *)
(* placement call that leaves out the host the instance is on.             *)
(***************************************************************************)
REBUILDING == "rebuilding"

\* the hosts a rebuild can go to: the ones the instance is not on
RebuildHostStates ==
    {[host |-> "host2", nodename |-> "node2"],
     [host |-> "host3", nodename |-> "node3"]}

\* what select_destinations returns for the rebuild: one candidate or more
RebuildCandidateLists ==
    {<<a>> : a \in RebuildHostStates} \cup
    {q \in {<<a, b>> : a \in RebuildHostStates, b \in RebuildHostStates} :
        q[1] # q[2]}

\* what the try block of rebuild_instance can raise, with the step raising it
RebuildSchedulingFailures ==
    {<<"setup_instance_group", "UnsupportedPolicyException">>,
     <<"select_destinations", "NoValidHost">>,
     <<"select_destinations", "Exception">>}

\* the two except clauses of rebuild_instance
RebuildPlacementFailures == {"NoValidHost", "UnsupportedPolicyException"}

\* variant: a host is always looked for
rebuild_needs_host_always(host) == TRUE

\* if not host
rebuild_needs_host(host) == host = NONE

\* filter_properties = {'ignore_hosts': [instance.host]}
rebuild_filter_properties(inst) == [ignore_hosts |-> <<inst.host>>]

\* variant: the row is put in ERROR
rebuild_failure_updates_error(inst) ==
    [vm_state |-> ERROR, task_state |-> NONE, expected_task_state |-> NONE]

\* {'vm_state': instance.vm_state, 'task_state': None}
rebuild_failure_updates(inst) ==
    [vm_state |-> inst.vm_state, task_state |-> NONE,
     expected_task_state |-> NONE]

rebuild_event(op, detail) == [op |-> op, detail |-> detail]

InitRebuild ==
    /\ migrate_vars_idle
    /\ normalize_vars_idle
    /\ build_vars_idle
    /\ unshelve_vars_idle
    /\ hyperv_vars_idle
    /\ \E vs \in {ACTIVE, STOPPED, ERROR} :
         /\ rebuild_db = [host |-> SourceHost, vm_state |-> vs,
                          task_state |-> REBUILDING]
         /\ rebuild_arg = [host |-> SourceHost, vm_state |-> vs,
                           task_state |-> REBUILDING]
    /\ rebuild_pc = "idle"
    /\ rebuild_host_arg = NONE
    /\ rebuild_hosts = NONE
    /\ rebuild_host = NONE
    /\ rebuild_events = <<>>
    /\ rebuild_ex = NoException
    /\ rebuild_raised = NoException

\* rebuild_instance up to the select_destinations call, or up to the
\* notification when a host was given
rebuild_instance ==
    /\ rebuild_pc = "idle"
    /\ \E h \in {NONE} \cup {a.host : a \in RebuildHostStates} :
         /\ rebuild_host_arg' = h
         /\ IF rebuild_needs_host(h)
            THEN \/ /\ rebuild_events' = Append(rebuild_events,
                           rebuild_event("select_destinations",
                               rebuild_filter_properties(rebuild_arg)))
                    /\ rebuild_pc' = "selecting"
                    /\ rebuild_host' = h
                    /\ UNCHANGED rebuild_ex
                 \/ \E f \in {x \in RebuildSchedulingFailures :
                                 x[1] = "setup_instance_group"},
                       m \in Messages :
                    /\ rebuild_ex' = [kind |-> f[2], msg |-> m]
                    /\ rebuild_pc' = "except"
                    /\ rebuild_host' = h
                    /\ UNCHANGED rebuild_events
            ELSE /\ rebuild_host' = h
                 /\ rebuild_pc' = "dispatch"
                 /\ UNCHANGED <<rebuild_events, rebuild_ex>>
    /\ UNCHANGED <<rebuild_arg, rebuild_hosts, rebuild_db, rebuild_raised>>
    /\ UNCHANGED not_rebuild_vars

\* select_destinations answers: host = hosts.pop(0)['host']
rebuild_select_returns ==
    /\ rebuild_pc = "selecting"
    /\ \E hs \in RebuildCandidateLists :
         /\ rebuild_hosts' = hs
         /\ rebuild_host' = first_candidate(hs).host
    /\ rebuild_pc' = "dispatch"
    /\ UNCHANGED <<rebuild_arg, rebuild_host_arg, rebuild_db, rebuild_events,
                   rebuild_ex, rebuild_raised>>
    /\ UNCHANGED not_rebuild_vars

\* select_destinations raises
rebuild_select_raises ==
    /\ rebuild_pc = "selecting"
    /\ \E f \in {x \in RebuildSchedulingFailures :
                    x[1] = "select_destinations"},
          m \in Messages :
         rebuild_ex' = [kind |-> f[2], msg |-> m]
    /\ rebuild_pc' = "except"
    /\ UNCHANGED <<rebuild_arg, rebuild_host_arg, rebuild_hosts, rebuild_host,
                   rebuild_db, rebuild_events, rebuild_raised>>
    /\ UNCHANGED not_rebuild_vars

\* the except clauses for NoValidHost and UnsupportedPolicyException: the
\* state update, then the exception raised again; any other exception
\* leaves rebuild_instance as it is
rebuild_except ==
    /\ rebuild_pc = "except"
    /\ IF rebuild_ex.kind \in RebuildPlacementFailures
       THEN /\ rebuild_db' = instance_update(rebuild_db,
                                 rebuild_failure_updates(rebuild_arg))
            /\ rebuild_events' = Append(rebuild_events,
                   rebuild_event("set_vm_state_and_notify",
                                 rebuild_failure_updates(rebuild_arg)))
       ELSE UNCHANGED <<rebuild_db, rebuild_events>>
    /\ rebuild_raised' = rebuild_ex
    /\ rebuild_pc' = "raised"
    /\ UNCHANGED <<rebuild_arg, rebuild_host_arg, rebuild_hosts, rebuild_host,
                   rebuild_ex>>
    /\ UNCHANGED not_rebuild_vars

\* the 'rebuild.scheduled' notification and the rebuild_instance cast
rebuild_dispatch ==
    /\ rebuild_pc = "dispatch"
    /\ rebuild_events' = rebuild_events \o
           <<rebuild_event("notify", "rebuild.scheduled"),
             rebuild_event("rebuild_instance", [host |-> rebuild_host])>>
    /\ rebuild_pc' = "returned"
    /\ UNCHANGED <<rebuild_arg, rebuild_host_arg, rebuild_hosts, rebuild_host,
                   rebuild_db, rebuild_ex, rebuild_raised>>
    /\ UNCHANGED not_rebuild_vars

\* another request writes the task_state of the instance
rebuild_task_state_written_elsewhere ==
    /\ rebuild_pc \in {"selecting", "except", "dispatch"}
    /\ \E ts \in {NONE, REBUILDING} \ {rebuild_db.task_state} :
         rebuild_db' = [rebuild_db EXCEPT !.task_state = ts]
    /\ UNCHANGED <<rebuild_pc, rebuild_arg, rebuild_host_arg, rebuild_hosts,
                   rebuild_host, rebuild_events, rebuild_ex, rebuild_raised>>
    /\ UNCHANGED not_rebuild_vars

NextRebuild ==
    \/ rebuild_instance
    \/ rebuild_select_returns
    \/ rebuild_select_raises
    \/ rebuild_except
    \/ rebuild_dispatch
    \/ rebuild_task_state_written_elsewhere

SpecRebuild == InitRebuild /\ [][NextRebuild]_vars

\* the events of the rebuild_instance call with the given operation
rebuild_events_of(op) ==
    {e \in DOMAIN rebuild_events : rebuild_events[e].op = op}

\* C24: with a host given there is no placement call and the cast goes to
\* that host; with none there is at most one placement call, leaving out the
\* host the instance is on, and once candidates came back the cast goes,
\* once, to the first of them; a call that returned has cast exactly once.
C24_RebuildGoesToGivenOrSelectedHost ==
    /\ Cardinality(rebuild_events_of("select_destinations")) <= 1
    /\ Cardinality(rebuild_events_of("rebuild_instance")) <= 1
    /\ rebuild_host_arg # NONE =>
         /\ rebuild_events_of("select_destinations") = {}
         /\ \A e \in rebuild_events_of("rebuild_instance") :
              rebuild_events[e].detail.host = rebuild_host_arg
    /\ (rebuild_host_arg = NONE /\ rebuild_pc \in {"dispatch", "returned"}) =>
         /\ Cardinality(rebuild_events_of("select_destinations")) = 1
         /\ rebuild_hosts # NONE
         /\ \A e \in rebuild_events_of("rebuild_instance") :
              /\ rebuild_events[e].detail.host = rebuild_hosts[1].host
              /\ \E c \in rebuild_events_of("select_destinations") : c < e
    /\ \A c \in rebuild_events_of("select_destinations") :
         rebuild_events[c].detail = [ignore_hosts |-> <<rebuild_arg.host>>]
    /\ rebuild_pc = "returned" =>
         Cardinality(rebuild_events_of("rebuild_instance")) = 1

\* no host given, two candidates came back, the cast went to the first
C24_Witness ==
    /\ rebuild_pc = "returned"
    /\ rebuild_host_arg = NONE
    /\ rebuild_hosts # NONE
    /\ Len(rebuild_hosts) = 2
    /\ rebuild_events[Len(rebuild_events)].detail.host = rebuild_hosts[1].host

\* the step in which an except clause of rebuild_instance runs for a
\* placement failure
RebuildHandlerStep ==
    /\ rebuild_pc = "except"
    /\ rebuild_pc' = "raised"
    /\ rebuild_ex.kind \in RebuildPlacementFailures

\* C25: when scheduling the rebuild fails with NoValidHost or
\* UnsupportedPolicyException, the row is written with the vm_state it had
\* and task_state None, then the same exception is raised to the caller;
\* there is no rebuild cast and no 'rebuild.scheduled' notification.
C25_RebuildPlacementFailureResets ==
    [][RebuildHandlerStep =>
          /\ rebuild_db'.vm_state = rebuild_db.vm_state
          /\ rebuild_db'.task_state = NONE
          /\ rebuild_raised' = rebuild_ex
          /\ rebuild_events_of("rebuild_instance") = {}
          /\ rebuild_events_of("notify") = {}
          /\ rebuild_events' = Append(rebuild_events,
                 rebuild_event("set_vm_state_and_notify",
                     [vm_state |-> rebuild_db.vm_state, task_state |-> NONE,
                      expected_task_state |-> NONE]))]_vars

\* NoValidHost was raised to the caller of a rebuild of an ACTIVE instance
\* whose row still had its task_state
C25_Witness ==
    /\ rebuild_pc = "raised"
    /\ rebuild_raised.kind = "NoValidHost"
    /\ rebuild_db.vm_state = ACTIVE
    /\ rebuild_db.task_state = NONE
    /\ rebuild_events_of("set_vm_state_and_notify") # {}

\* the calls that cast start_instance or unshelve_instance to a compute host
UnshelveDispatchers ==
    {p \in Callers :
        unshelve_events_of(p, {"start_instance", "unshelve_instance"}) # {}}

\* C26: of the concurrent unshelve_instance calls for one instance, at most
\* one casts to a compute host, and once one has, every other call that is
\* over has raised UnexpectedTaskStateError.
C26_AtMostOneUnshelveDispatch ==
    /\ Cardinality(UnshelveDispatchers) <= 1
    /\ \A p \in UnshelveDispatchers :
         \A q \in Callers \ {p} :
             unshelve_pc[q] \in {"returned", "raised"}
                 => unshelve_raised[q] = "UnexpectedTaskStateError"

\* the step of a call on the SHELVED branch that finds another task_state
\* than UNSHELVING in the row
RejectedSaveStep(p) ==
    /\ unshelve_pc[p] = "called"
    /\ unshelve_args[p].vm_state = SHELVED
    /\ unshelve_db.task_state # UNSHELVING
    /\ unshelve_pc'[p] # "called"

\* C27: when the row no longer holds task_state UNSHELVING, the save of the
\* SHELVED branch is refused: UnexpectedTaskStateError is raised to the
\* caller, the row is as it was, and the call never casts start_instance.
C27_RejectedSaveIsHardFailure ==
    /\ [][\A p \in Callers :
            RejectedSaveStep(p) =>
                /\ unshelve_raised'[p] = "UnexpectedTaskStateError"
                /\ unshelve_pc'[p] = "raised"
                /\ unshelve_db' = unshelve_db
                /\ unshelve_events' = unshelve_events]_vars
    /\ [](\A p \in Callers :
            unshelve_raised[p] = "UnexpectedTaskStateError" =>
                /\ unshelve_pc[p] = "raised"
                /\ unshelve_events_of(p, {"start_instance", "save"}) = {})

\* the second of two calls was refused after the first had saved POWERING_ON
C27_Witness ==
    \E p \in Callers :
        /\ unshelve_raised[p] = "UnexpectedTaskStateError"
        /\ unshelve_db = [vm_state |-> SHELVED, task_state |-> POWERING_ON]

\* C28: the write of either except clause of _live_migrate expects
\* task_state MIGRATING; when the row holds another task_state as the clause
\* runs, the write is refused with UnexpectedTaskStateError and the row keeps
\* the vm_state and task_state it had.
C28_LiveHandlerWriteIsConditional ==
    [][LiveHandlerStep =>
          /\ state_updates'[Len(state_updates')].expected_task_state = MIGRATING
          /\ db_instance.task_state # MIGRATING =>
               /\ db_instance'.vm_state = db_instance.vm_state
               /\ db_instance'.task_state = db_instance.task_state
               /\ raised' = UnexpectedTaskStateError]_vars

\* the clause for unexpected failures ran on a row whose task_state had been
\* cleared, and the row is as before
C28_Witness ==
    /\ pc = "raised"
    /\ live
    /\ ex.kind = "Exception"
    /\ raised = UnexpectedTaskStateError
    /\ db_instance.task_state = NONE
    /\ db_instance.vm_state = ACTIVE

\* the events a step adds
NewUnshelveEvents ==
    {unshelve_events'[i] :
        i \in (Len(unshelve_events) + 1)..Len(unshelve_events')}

\* the step in which the try block of caller p raises one of the given kinds
RaisedInTry(p, kinds) ==
    \E e \in NewUnshelveEvents :
        e.proc = p /\ e.op = "raises" /\ e.detail \in kinds

\* C29: when scheduling raises NoValidHost or UnsupportedPolicyException
\* while a SHELVED_OFFLOADED instance is unshelved, task_state None is saved,
\* vm_state is not touched and is still SHELVED_OFFLOADED on the instance,
\* nothing is cast, and the call returns without raising; no call ever
\* raises one of the two to its caller.
C29_PlacementFailureSwallowed ==
    /\ [][\A p \in Callers :
            RaisedInTry(p, {"NoValidHost", "UnsupportedPolicyException"}) =>
                /\ unshelve_pc'[p] = "returned"
                /\ unshelve_raised'[p] = NONE
                /\ unshelve_db'.task_state = NONE
                /\ unshelve_db'.vm_state = unshelve_db.vm_state
                /\ unshelve_args'[p].vm_state = SHELVED_OFFLOADED
                /\ unshelve_args'[p].task_state = NONE
                /\ unshelve_events'[Len(unshelve_events')] =
                       unshelve_event(p, "save", [task_state |-> NONE])
                /\ unshelve_events_of(p, {"unshelve_instance"}) = {}
                /\ \A e \in NewUnshelveEvents :
                       e.op # "unshelve_instance"]_vars
    /\ [](\A p \in Callers :
            unshelve_raised[p] \notin
                {"NoValidHost", "UnsupportedPolicyException"})

\* UnsupportedPolicyException was raised in the try block of a call that
\* has returned
C29_Witness ==
    \E p \in Callers :
        /\ unshelve_pc[p] = "returned"
        /\ unshelve_raised[p] = NONE
        /\ unshelve_db = [vm_state |-> SHELVED_OFFLOADED, task_state |-> NONE]
        /\ \E e \in DOMAIN unshelve_events :
             unshelve_events[e] =
                 unshelve_event(p, "raises", "UnsupportedPolicyException")

\* C30: when scheduling or the cast raises anything but NoValidHost and
\* UnsupportedPolicyException while a SHELVED_OFFLOADED instance is
\* unshelved, task_state None is saved and then that exception is raised to
\* the caller; the call does not return normally.
C30_OtherFailureResetsAndReraises ==
    [][\A p \in Callers :
          RaisedInTry(p, {"Exception"}) =>
              /\ unshelve_pc'[p] = "raised"
              /\ unshelve_raised'[p] = "Exception"
              /\ unshelve_db'.task_state = NONE
              /\ unshelve_db'.vm_state = unshelve_db.vm_state
              /\ unshelve_args'[p].task_state = NONE
              /\ unshelve_events'[Len(unshelve_events')] =
                     unshelve_event(p, "save", [task_state |-> NONE])
              /\ \A e \in NewUnshelveEvents :
                     e.op # "unshelve_instance"]_vars

\* the cast failed after candidates had come back, and the exception was
\* raised to the caller with the task_state cleared
C30_Witness ==
    \E p \in Callers :
        /\ unshelve_pc[p] = "raised"
        /\ unshelve_raised[p] = "Exception"
        /\ unshelve_hosts[p] # NONE
        /\ unshelve_db.task_state = NONE
        /\ unshelve_events[Len(unshelve_events)] =
               unshelve_event(p, "save", [task_state |-> NONE])

\* the instance at position k of the batch was cast once, to the host paired
\* with it, or was found deleted at its refresh, or was set to ERROR
AccountedFor(k) ==
    \/ /\ Cardinality(dispatches_of(k)) = 1
       /\ k <= Len(hosts)
       /\ \A d \in dispatches_of(k) : build_dispatches[d].host = hosts[k]
    \/ /\ refreshed[k] = "not_found"
       /\ dispatches_of(k) = {}
    \/ /\ instance_rows[instances[k]].vm_state = ERROR
       /\ instance_rows[instances[k]].task_state = NONE
       /\ dispatches_of(k) = {}

\* C31: once build_instances has returned, every instance of the batch was
\* cast once to the host paired with it, or skipped as deleted, or set to
\* vm_state ERROR with task_state None, however many hosts came back.
C31_EveryInstanceAccountedFor ==
    build_pc = "returned" => \A k \in 1..Len(instances) : AccountedFor(k)

\* a row still holding the task_state of the operation on an instance that
\* is not in ERROR
Stuck(row, in_flight) ==
    /\ row.task_state \in in_flight
    /\ row.vm_state # ERROR

\* migrate_server: after an except clause of _live_migrate or _cold_migrate
MigrateNotStuck ==
    [][(LiveHandlerStep \/ ColdHandlerStep) =>
          ~Stuck(db_instance', IF live THEN {MIGRATING} ELSE {RESIZE_PREP})]_vars

\* build_instances: after a failure of scheduling
BuildNotStuck ==
    build_failed_at # NONE =>
        \A k \in 1..Len(instances) :
            ~Stuck(instance_rows[instances[k]], {SCHEDULING})

\* unshelve_instance: once a call has raised, or has returned without a cast
UnshelveNotStuck ==
    \A p \in Callers :
        (\/ unshelve_pc[p] = "raised"
         \/ /\ unshelve_pc[p] = "returned"
            /\ p \notin UnshelveDispatchers)
            => ~Stuck(unshelve_db, {UNSHELVING})

\* rebuild_instance: once the call has raised
RebuildNotStuck ==
    rebuild_pc = "raised" => ~Stuck(rebuild_db, {REBUILDING})

\* C32: whatever exception ends migrate_server, build_instances,
\* unshelve_instance or rebuild_instance, the instance is left with its
\* task_state cleared or with vm_state ERROR, never with the task_state of
\* the operation still set on an instance that is not in ERROR.
C32_NoFailureLeavesInstanceStuck ==
    /\ MigrateNotStuck
    /\ []BuildNotStuck
    /\ []UnshelveNotStuck
    /\ []RebuildNotStuck


(***************************************************************************)
(* C33: the frame of a rejected migrate_server call, and where migration   *)
(* rows come from.                                                         *)
(***************************************************************************)
\* the flag combination of the call in progress, as migrate_server reads it
\* after the flavor lookup
LiveCombination == live /\ ~rebuild /\ flavor = NoFlavor

ColdCombination == ~live /\ ~rebuild /\ flavor # NoFlavor

\* the step that enters migrate_server and routes the call
MigrateServerStep == ncalls' = ncalls + 1

\* C33: a migrate_server call whose (live, rebuild, flavor) combination is
\* neither the live one nor the cold one raises NotImplementedError and has
\* no side effect: no migration row is created, the instance row is not
\* written, no state update is made, and no placement call or compute
\* dispatch is issued.  A migration row is created only by a call on the
\* live path, and exactly one per such call: no other step of any call adds
\* or removes a row.
C33_RejectedCallHasNoSideEffect ==
    [][/\ (MigrateServerStep /\ ~LiveCombination' /\ ~ColdCombination') =>
              /\ pc' = "raised"
              /\ raised'.kind = "NotImplementedError"
              /\ migrations' = migrations
              /\ db_instance' = db_instance
              /\ state_updates' = <<>>
              /\ saves' = 0
              /\ calls' = <<>>
       /\ (MigrateServerStep /\ LiveCombination') =>
              Len(migrations') = Len(migrations) + 1
       /\ ~(MigrateServerStep /\ LiveCombination') =>
              Len(migrations') = Len(migrations)]_vars

\* a rejected call was made after an earlier live call had created a row
C33_Witness ==
    /\ pc = "raised"
    /\ raised.kind = "NotImplementedError"
    /\ ~LiveCombination /\ ~ColdCombination
    /\ calls = <<>>
    /\ state_updates = <<>>
    /\ Len(migrations) = 1
    /\ ncalls = 2



(***************************************************************************)
(* Hyper-V VMOps: spawn, destroy, reboot, power_off and _soft_shutdown.    *)
(* One call runs at a time; the VM can be deleted under it.                *)
(***************************************************************************)
min(a, b) == IF a < b THEN a ELSE b

\* self._vmutils.vm_exists(instance_name)
vm_exists(vm) == vm.exists

vm_in_state(state) == [exists |-> TRUE, state |-> state]

\* how a request to the hypervisor about the VM can end: NotFound when the
\* VM is gone, else done or refused with HyperVException
VmutilsOutcomes(vm) ==
    IF vm_exists(vm) THEN {"ok", "HyperVException"} ELSE {"NotFound"}

hv_event(op, arg) == [op |-> op, arg |-> arg]

\* the VM after vmutils.set_vm_state(req): a reboot leaves it running
vm_after(req) ==
    vm_in_state(IF req = HYPERV_VM_STATE_REBOOT
                THEN HYPERV_VM_STATE_ENABLED
                ELSE req)

\* _set_vm_state after the hypervisor took the request: the console log is
\* deleted for DISABLED and REBOOT, the log writer started for ENABLED and
\* REBOOT
set_vm_state_followup(req) ==
    (IF req \in {HYPERV_VM_STATE_DISABLED, HYPERV_VM_STATE_REBOOT}
     THEN <<hv_event("delete_vm_console_log", 0)>> ELSE <<>>)
    \o (IF req \in {HYPERV_VM_STATE_ENABLED, HYPERV_VM_STATE_REBOOT}
        THEN <<hv_event("log_vm_serial_output", 0)>> ELSE <<>>)

\* VMOps._set_vm_state(instance, req_state), the hypervisor answering o
vmops_set_vm_state(vm, req, o) ==
    [events |-> <<hv_event("set_vm_state", req)>>
                \o (IF o = "ok" THEN set_vm_state_followup(req) ELSE <<>>),
     vm |-> IF o = "ok" THEN vm_after(req) ELSE vm,
     raised |-> IF o = "ok" THEN NONE ELSE o,
     origin |-> IF o = "ok" THEN NONE ELSE "set_vm_state"]

\* power_on without block_device_info
power_on(vm, o) == vmops_set_vm_state(vm, HYPERV_VM_STATE_ENABLED, o)

\* variant: power_off returns early whenever _soft_shutdown returned
power_off_returns_early_always(soft) == soft # "NotFound"

\* power_off: "if timeout and self._soft_shutdown(...): return"
power_off_returns_early(soft) == soft = "True"

\* power_off from the forced state change on; NotFound is swallowed
power_off_force(vm, o) ==
    LET r == vmops_set_vm_state(vm, HYPERV_VM_STATE_DISABLED, o) IN
    IF r.raised = "NotFound"
    THEN [r EXCEPT !.raised = NONE, !.origin = NONE]
    ELSE r

\* where destroy can fail
DestroyFailures == {NONE, "power_off", "destroy_vm"}

\* destroy(instance) with destroy_disks: power_off with no timeout, destroy_vm,
\* disconnect_volumes, then the disk files; an exception is logged and
\* raised again
destroy_result(vm, fail) ==
    IF ~vm_exists(vm)
    THEN [events |-> <<hv_event("delete_disk_files", 0)>>,
          vm |-> vm, raised |-> NONE, origin |-> NONE]
    ELSE LET off == power_off_force(vm, IF fail = "power_off"
                                        THEN "HyperVException" ELSE "ok") IN
         IF off.raised # NONE
         THEN [off EXCEPT !.origin = "destroy"]
         ELSE IF fail = "destroy_vm"
         THEN [events |-> off.events \o <<hv_event("destroy_vm", 0)>>,
               vm |-> off.vm,
               raised |-> "HyperVException",
               origin |-> "destroy"]
         ELSE [events |-> off.events \o <<hv_event("destroy_vm", 0),
                                          hv_event("disconnect_volumes", 0),
                                          hv_event("delete_disk_files", 0)>>,
               vm |-> NoVm,
               raised |-> NONE,
               origin |-> NONE]

\* where spawn can fail
SpawnFailures == {NONE, "create_root_vhd", "create_vm", "create_instance",
                  "attach_config_drive", "power_on"}

\* the try block of spawn: create_instance, the config drive when the
\* instance requires one, power_on
spawn_try(config_drive, fail_at) ==
    LET created == vm_in_state(HYPERV_VM_STATE_DISABLED)
        failed(evs, vm) ==
            [events |-> evs, vm |-> vm, raised |-> "HyperVException",
             origin |-> fail_at]
        drive == IF config_drive
                 THEN <<hv_event("create_config_drive", 0),
                        hv_event("attach_config_drive", 0)>>
                 ELSE <<>>
    IN  IF fail_at = "create_vm"
        THEN failed(<<hv_event("create_instance", 0)>>, NoVm)
        ELSE IF fail_at = "create_instance"
        THEN failed(<<hv_event("create_instance", 0)>>, created)
        ELSE IF config_drive /\ fail_at = "attach_config_drive"
        THEN failed(<<hv_event("create_instance", 0)>> \o drive, created)
        ELSE LET on == power_on(created, IF fail_at = "power_on"
                                         THEN "HyperVException" ELSE "ok") IN
             [events |-> <<hv_event("create_instance", 0)>> \o drive
                         \o on.events,
              vm |-> on.vm,
              raised |-> on.raised,
              origin |-> IF on.raised = NONE THEN NONE ELSE "power_on"]

\* variant: the except clause of spawn does not clean up
spawn_cleanup_none(vm, destroy_fail) ==
    [events |-> <<>>, vm |-> vm, raised |-> NONE, origin |-> NONE]

\* the except clause of spawn: self.destroy(instance)
spawn_cleanup(vm, destroy_fail) ==
    LET d == destroy_result(vm, destroy_fail) IN
    [d EXCEPT !.events = <<hv_event("destroy", 0)>> \o d.events]

\* spawn: InstanceExists when the VM is there; else the disk files are
\* cleared, the disks created, and the try block run; when that fails the
\* instance is destroyed and the exception raised again, unless destroy
\* raises one of its own
spawn_result(vm, config_drive, fail_at, destroy_fail) ==
    IF vm_exists(vm)
    THEN [events |-> <<>>, vm |-> vm, raised |-> "InstanceExists",
          origin |-> "vm_exists"]
    ELSE LET pre == <<hv_event("delete_disk_files", 0),
                      hv_event("create_root_vhd", 0)>> IN
         IF fail_at = "create_root_vhd"
         THEN [events |-> pre, vm |-> vm, raised |-> "HyperVException",
               origin |-> fail_at]
         ELSE LET pre2 == pre \o <<hv_event("create_ephemeral_vhd", 0)>>
                  body == spawn_try(config_drive, fail_at)
              IN  IF body.raised = NONE
                  THEN [body EXCEPT !.events = pre2 \o body.events]
                  ELSE LET d == spawn_cleanup(body.vm, destroy_fail) IN
                       [events |-> pre2 \o body.events \o d.events,
                        vm |-> d.vm,
                        raised |-> IF d.raised # NONE THEN d.raised
                                   ELSE body.raised,
                        origin |-> IF d.raised # NONE THEN d.origin
                                   ELSE body.origin]

\* how one soft shutdown attempt can end: the VM gone, soft_shutdown_vm
\* refused, the VM seen powered off within the wait, or the wait over; a
\* VM that is off already is seen off at the first look
SoftShutdownOutcomes(vm) ==
    IF ~vm_exists(vm) THEN {"NotFound"}
    ELSE IF vm.state = HYPERV_VM_STATE_DISABLED
    THEN {"powered_off", "HyperVException"}
    ELSE {"powered_off", "timed_out", "HyperVException"}

\* variant: the wait not capped by the remaining timeout
wait_time_uncapped(retry_interval, timeout) == retry_interval

\* _soft_shutdown: wait_time = min(retry_interval, timeout)
wait_time(retry_interval, timeout) == min(retry_interval, timeout)

\* variant: the timeout counted down by one per attempt
next_timeout_by_one(timeout, retry_interval) == timeout - 1

\* _soft_shutdown: timeout -= retry_interval
next_timeout(timeout, retry_interval) == timeout - retry_interval

\* power_off: "if retry_interval <= 0: retry_interval = ..."
power_off_retry_interval(retry_interval) ==
    IF retry_interval <= 0 THEN SHUTDOWN_TIME_INCREMENT ELSE retry_interval

\* variant: reboot without the return after power_on
reboot_requests_no_return(reboot_type, soft) ==
    IF reboot_type = REBOOT_TYPE_SOFT /\ soft = "True"
    THEN <<HYPERV_VM_STATE_ENABLED, HYPERV_VM_STATE_REBOOT>>
    ELSE <<HYPERV_VM_STATE_REBOOT>>

\* reboot once _soft_shutdown is over (or was not asked for): the state
\* changes it requests
reboot_requests(reboot_type, soft) ==
    IF reboot_type = REBOOT_TYPE_SOFT /\ soft = "True"
    THEN <<HYPERV_VM_STATE_ENABLED>>
    ELSE <<HYPERV_VM_STATE_REBOOT>>

InitVmops ==
    /\ migrate_vars_idle
    /\ normalize_vars_idle
    /\ build_vars_idle
    /\ unshelve_vars_idle
    /\ rebuild_vars_idle
    /\ writer_vars_idle
    /\ hv_pc = "idle"
    /\ hv_call = NoCall
    /\ hv_vm \in {NoVm, vm_in_state(HYPERV_VM_STATE_ENABLED),
                  vm_in_state(HYPERV_VM_STATE_DISABLED)}
    /\ hv_timeout = 0
    /\ hv_attempts = <<>>
    /\ hv_soft = NONE
    /\ hv_events = <<>>
    /\ hv_result = NoResult

\* what the caller of the operation gets: a return, or the exception and
\* the step that raised it
call_result(r) ==
    IF r.raised = NONE
    THEN [kind |-> "returned", value |-> NONE, origin |-> NONE]
    ELSE [kind |-> "raised", value |-> r.raised, origin |-> r.origin]

\* the call ends with what r says
hv_ends(r) ==
    /\ hv_events' = hv_events \o r.events
    /\ hv_vm' = r.vm
    /\ hv_result' = call_result(r)
    /\ hv_pc' = "done"

\* a call that ends in the step that starts it
hv_whole_call(call, r) ==
    /\ hv_call' = call
    /\ hv_events' = r.events
    /\ hv_vm' = r.vm
    /\ hv_result' = call_result(r)
    /\ hv_pc' = "done"
    /\ hv_timeout' = 0
    /\ hv_attempts' = <<>>
    /\ hv_soft' = NONE

\* a call that goes into _soft_shutdown(instance, timeout, retry_interval)
hv_enters_soft_shutdown(call) ==
    /\ hv_call' = call
    /\ hv_events' = <<>>
    /\ hv_result' = NoResult
    /\ hv_attempts' = <<>>
    /\ hv_timeout' = call.timeout
    /\ IF call.timeout > 0
       THEN hv_pc' = "soft_shutdown" /\ hv_soft' = NONE
       ELSE hv_pc' = "soft_shutdown_returned" /\ hv_soft' = "False"
    /\ UNCHANGED hv_vm

spawn ==
    /\ hv_pc \in {"idle", "done"}
    /\ \E config_drive \in BOOLEAN, fail_at \in SpawnFailures,
          destroy_fail \in DestroyFailures :
         hv_whole_call([NoCall EXCEPT !.op = "spawn"],
                       spawn_result(hv_vm, config_drive, fail_at,
                                    destroy_fail))
    /\ UNCHANGED not_vmops_vars

destroy ==
    /\ hv_pc \in {"idle", "done"}
    /\ \E fail \in DestroyFailures :
         hv_whole_call([NoCall EXCEPT !.op = "destroy"],
                       destroy_result(hv_vm, fail))
    /\ UNCHANGED not_vmops_vars

\* power_off(instance, timeout, retry_interval) up to the first soft
\* shutdown attempt, or to its end when no timeout was given
power_off ==
    /\ hv_pc \in {"idle", "done"}
    /\ \E timeout \in 0..MaxTimeout, retry_interval \in 0..MaxRetryInterval :
         LET call == [op |-> "power_off",
                      reboot_type |-> NONE,
                      timeout |-> timeout,
                      retry_interval |->
                          power_off_retry_interval(retry_interval)]
         IN  IF timeout # 0
             THEN hv_enters_soft_shutdown(call)
             ELSE \E o \in VmutilsOutcomes(hv_vm) :
                    hv_whole_call(call, power_off_force(hv_vm, o))
    /\ UNCHANGED not_vmops_vars

\* reboot(instance, network_info, reboot_type) up to the first soft shutdown
\* attempt, or to its end for a hard reboot; the soft shutdown window is
\* hyperv.wait_soft_reboot_seconds
reboot ==
    /\ hv_pc \in {"idle", "done"}
    /\ \E reboot_type \in {REBOOT_TYPE_SOFT, REBOOT_TYPE_HARD},
          wait_soft_reboot_seconds \in 0..MaxTimeout :
         LET call == [op |-> "reboot",
                      reboot_type |-> reboot_type,
                      timeout |-> IF reboot_type = REBOOT_TYPE_SOFT
                                  THEN wait_soft_reboot_seconds ELSE 0,
                      retry_interval |-> SHUTDOWN_TIME_INCREMENT]
         IN  IF reboot_type = REBOOT_TYPE_SOFT
             THEN hv_enters_soft_shutdown(call)
             ELSE \E o \in VmutilsOutcomes(hv_vm) :
                    hv_whole_call(call,
                        vmops_set_vm_state(hv_vm, HYPERV_VM_STATE_REBOOT, o))
    /\ UNCHANGED not_vmops_vars

\* one pass of the while loop of _soft_shutdown
soft_shutdown ==
    /\ hv_pc = "soft_shutdown"
    /\ hv_timeout > 0
    /\ \E o \in SoftShutdownOutcomes(hv_vm) :
         LET w == wait_time(hv_call.retry_interval, hv_timeout)
             left == next_timeout(hv_timeout, hv_call.retry_interval)
         IN  /\ hv_attempts' =
                    Append(hv_attempts, [wait_time |-> w, outcome |-> o])
             /\ IF o = "powered_off"
                THEN /\ hv_vm' = vm_in_state(HYPERV_VM_STATE_DISABLED)
                     /\ hv_soft' = "True"
                     /\ hv_pc' = "soft_shutdown_returned"
                     /\ UNCHANGED hv_timeout
                ELSE IF o = "NotFound"
                THEN /\ hv_soft' = "NotFound"
                     /\ hv_pc' = "soft_shutdown_returned"
                     /\ UNCHANGED <<hv_vm, hv_timeout>>
                ELSE /\ hv_timeout' = left
                     /\ IF left > 0
                        THEN UNCHANGED <<hv_pc, hv_soft>>
                        ELSE /\ hv_soft' = "False"
                             /\ hv_pc' = "soft_shutdown_returned"
                     /\ UNCHANGED hv_vm
    /\ UNCHANGED <<hv_call, hv_events, hv_result>>
    /\ UNCHANGED not_vmops_vars

\* the caller of _soft_shutdown goes on: power_off returns or forces the VM
\* off, and swallows NotFound; reboot powers on or reboots hard, and lets
\* NotFound through
soft_shutdown_returns ==
    /\ hv_pc = "soft_shutdown_returned"
    /\ IF hv_soft = "NotFound"
       THEN hv_ends([events |-> <<>>, vm |-> hv_vm,
                     raised |-> IF hv_call.op = "power_off"
                                THEN NONE ELSE "NotFound",
                     origin |-> "soft_shutdown"])
       ELSE IF hv_call.op = "power_off"
       THEN IF power_off_returns_early(hv_soft)
            THEN hv_ends([events |-> <<>>, vm |-> hv_vm, raised |-> NONE,
                          origin |-> NONE])
            ELSE \E o \in VmutilsOutcomes(hv_vm) :
                   hv_ends(power_off_force(hv_vm, o))
       ELSE LET reqs == reboot_requests(hv_call.reboot_type, hv_soft) IN
            \E o \in VmutilsOutcomes(hv_vm) :
              LET first == vmops_set_vm_state(hv_vm, reqs[1], o) IN
              IF Len(reqs) = 1 \/ first.raised # NONE
              THEN hv_ends(first)
              ELSE \E o2 \in VmutilsOutcomes(first.vm) :
                     LET second == vmops_set_vm_state(first.vm, reqs[2], o2)
                     IN  hv_ends([second EXCEPT
                                    !.events = first.events \o second.events])
    /\ UNCHANGED <<hv_call, hv_timeout, hv_attempts, hv_soft>>
    /\ UNCHANGED not_vmops_vars

\* the instance is deleted while the call runs or between calls
vm_deleted_elsewhere ==
    /\ vm_exists(hv_vm)
    /\ hv_vm' = NoVm
    /\ UNCHANGED <<hv_pc, hv_call, hv_timeout, hv_attempts, hv_soft,
                   hv_events, hv_result>>
    /\ UNCHANGED not_vmops_vars

NextVmops ==
    \/ spawn
    \/ destroy
    \/ power_off
    \/ reboot
    \/ soft_shutdown
    \/ soft_shutdown_returns
    \/ vm_deleted_elsewhere

SpecVmops == InitVmops /\ [][NextVmops]_vars

\* _soft_shutdown runs in the thread of its caller, each wait is bounded by
\* with_timeout(time_limit) or sleep(wait_time), so a pending pass of the
\* loop and a pending return are taken
SpecVmopsFair ==
    /\ SpecVmops
    /\ WF_vars(soft_shutdown)
    /\ WF_vars(soft_shutdown_returns)


(***************************************************************************)
(* C34, C35: _soft_shutdown.                                               *)
(***************************************************************************)
\* a call that went into _soft_shutdown
InSoftShutdownCall == hv_pc = "soft_shutdown" \/ hv_soft # NONE

\* ceil(a / b) for a >= 0, b > 0
ceil_div(a, b) == (a + b - 1) \div b

\* the attempts that did not see the VM powered off and did not find it gone
FailedAttempts ==
    {i \in 1..Len(hv_attempts) :
        hv_attempts[i].outcome \in {"timed_out", "HyperVException"}}

SoftShutdownAttemptsBounded ==
    InSoftShutdownCall =>
        /\ Len(hv_attempts)
               <= ceil_div(hv_call.timeout, hv_call.retry_interval)
        \* an attempt that saw the VM powered off is the last one
        /\ \A i \in 1..Len(hv_attempts) :
             hv_attempts[i].outcome = "powered_off" =>
                 /\ i = Len(hv_attempts)
                 /\ hv_soft = "True"
        /\ hv_soft = "True" =>
               /\ hv_attempts # <<>>
               /\ hv_attempts[Len(hv_attempts)].outcome = "powered_off"
        \* False exactly when the attempts are used up and all of them failed
        /\ hv_soft = "False" <=>
               /\ hv_pc # "soft_shutdown"
               /\ FailedAttempts = 1..Len(hv_attempts)
               /\ Len(hv_attempts)
                      = ceil_div(hv_call.timeout, hv_call.retry_interval)

\* C34: _soft_shutdown with a positive timeout and retry_interval always
\* terminates; it makes at most ceil(timeout / retry_interval) attempts,
\* returns True as soon as one attempt sees the VM powered off, and returns
\* False once the attempts are used up, also when every attempt raised a
\* hypervisor exception.
C34_SoftShutdownTerminates ==
    /\ []SoftShutdownAttemptsBounded
    /\ (hv_pc = "soft_shutdown") ~> (hv_pc = "soft_shutdown_returned")

\* two or more attempts, every one refused with HyperVException, and
\* _soft_shutdown returned False
C34_Witness ==
    /\ hv_soft = "False"
    /\ Len(hv_attempts) >= 2
    /\ Len(hv_attempts) = ceil_div(hv_call.timeout, hv_call.retry_interval)
    /\ \A i \in 1..Len(hv_attempts) :
         hv_attempts[i].outcome = "HyperVException"

RECURSIVE total_wait(_)
total_wait(attempts) ==
    IF attempts = <<>> THEN 0
    ELSE attempts[1].wait_time + total_wait(Tail(attempts))

\* C35: across one _soft_shutdown call the wait times of the attempts, each
\* min(retry_interval, remaining timeout), add up to at most the timeout
\* asked for, and to exactly the timeout when every attempt failed.
C35_TotalWaitWithinTimeout ==
    InSoftShutdownCall =>
        /\ \A i \in 1..Len(hv_attempts) :
             hv_attempts[i].wait_time \in 1..hv_call.retry_interval
        /\ total_wait(hv_attempts) <= hv_call.timeout
        /\ hv_soft = "False" => total_wait(hv_attempts) = hv_call.timeout

\* every attempt failed and the last wait was cut to the timeout left
C35_Witness ==
    /\ hv_soft = "False"
    /\ Len(hv_attempts) >= 2
    /\ hv_attempts[Len(hv_attempts)].wait_time < hv_call.retry_interval
    /\ total_wait(hv_attempts) = hv_call.timeout


(***************************************************************************)
(* C36, C37: power_off and reboot.                                         *)
(***************************************************************************)
\* the positions in hv_events of the requests for the state req
StateRequests(req) ==
    {i \in 1..Len(hv_events) : hv_events[i] = hv_event("set_vm_state", req)}

\* the call op is over
CallEnded(op) == hv_pc = "done" /\ hv_call.op = op

\* C36: power_off forces the VM to DISABLED exactly when no soft shutdown
\* succeeded.  With timeout 0 no soft shutdown is attempted and the VM is
\* forced off; with a timeout the VM is forced off only if the soft shutdown
\* timed out, and then it is; when the instance is gone (NotFound, from the
\* soft shutdown or from the forced state change) power_off returns normally.
C36_PowerOffForcesWhenNoSoftShutdown ==
    CallEnded("power_off") =>
        /\ hv_call.timeout = 0 =>
               /\ hv_attempts = <<>>
               /\ hv_soft = NONE
               /\ Cardinality(StateRequests(HYPERV_VM_STATE_DISABLED)) = 1
        /\ hv_call.timeout > 0 =>
               /\ hv_attempts # <<>>
               /\ StateRequests(HYPERV_VM_STATE_DISABLED) # {}
                      <=> hv_soft = "False"
        /\ hv_soft = "True" => hv_events = <<>>
        /\ Cardinality(StateRequests(HYPERV_VM_STATE_DISABLED)) <= 1
        /\ hv_result.value # "NotFound"
        /\ hv_soft = "NotFound" =>
               /\ hv_result.kind = "returned"
               /\ hv_events = <<>>

\* a soft shutdown of two attempts timed out and the VM was forced off
C36_Witness ==
    /\ CallEnded("power_off")
    /\ hv_soft = "False"
    /\ Len(hv_attempts) >= 2
    /\ hv_events = <<hv_event("set_vm_state", HYPERV_VM_STATE_DISABLED),
                     hv_event("delete_vm_console_log", 0)>>
    /\ hv_result.kind = "returned"

\* C37: reboot with type SOFT powers the instance on again after a soft
\* shutdown that succeeded within the window, and requests no hard reboot;
\* when the soft shutdown timed out, or the type is HARD, it requests the
\* hard reboot (state REBOOT), exactly once, and no power on.
C37_RebootFallsBackToHard ==
    CallEnded("reboot") =>
        /\ (hv_call.reboot_type = REBOOT_TYPE_SOFT /\ hv_soft = "True") =>
               /\ hv_events # <<>>
               /\ hv_events[1] =
                      hv_event("set_vm_state", HYPERV_VM_STATE_ENABLED)
               /\ Cardinality(StateRequests(HYPERV_VM_STATE_ENABLED)) = 1
               /\ StateRequests(HYPERV_VM_STATE_REBOOT) = {}
        /\ (hv_call.reboot_type = REBOOT_TYPE_HARD \/ hv_soft = "False") =>
               /\ Cardinality(StateRequests(HYPERV_VM_STATE_REBOOT)) = 1
               /\ StateRequests(HYPERV_VM_STATE_ENABLED) = {}
        /\ hv_call.reboot_type = REBOOT_TYPE_HARD => hv_attempts = <<>>

\* a soft reboot whose second attempt saw the VM off, powered on again
C37_Witness ==
    /\ CallEnded("reboot")
    /\ hv_call.reboot_type = REBOOT_TYPE_SOFT
    /\ hv_soft = "True"
    /\ Len(hv_attempts) = 2
    /\ hv_events = <<hv_event("set_vm_state", HYPERV_VM_STATE_ENABLED),
                     hv_event("log_vm_serial_output", 0)>>
    /\ hv_vm = vm_in_state(HYPERV_VM_STATE_ENABLED)


(***************************************************************************)
(* C38: spawn.                                                             *)
(***************************************************************************)
\* the positions in evs of the events named op
EventsNamed(evs, op) == {i \in 1..Len(evs) : evs[i].op = op}

\* the steps of the try block of spawn
SpawnTrySteps == {"create_vm", "create_instance", "attach_config_drive",
                  "power_on"}

\* a spawn call is made
SpawnStep ==
    /\ hv_pc \in {"idle", "done"}
    /\ hv_call'.op = "spawn"
    /\ <<hv_call, hv_events, hv_result>>' # <<hv_call, hv_events, hv_result>>

\* C38: when a VM of the instance's name exists, spawn raises InstanceExists
\* before it deletes or creates anything.  When create_instance, the config
\* drive or power_on fails, destroy(instance) is called after the failed step
\* and before the exception leaves spawn; the exception that leaves is the
\* original one whenever destroy went through, and then no VM is left.
C38_SpawnCleansUp ==
    [][SpawnStep =>
        /\ hv_pc' = "done"
        /\ vm_exists(hv_vm) =>
               /\ hv_result' = [kind |-> "raised", value |-> "InstanceExists",
                                origin |-> "vm_exists"]
               /\ hv_events' = <<>>
               /\ hv_vm' = hv_vm
        /\ ~vm_exists(hv_vm) => hv_result'.value # "InstanceExists"
        /\ (hv_result'.kind = "raised"
            /\ EventsNamed(hv_events', "create_instance") # {}) =>
               /\ Cardinality(EventsNamed(hv_events', "destroy")) = 1
               /\ \A i \in EventsNamed(hv_events', "destroy") :
                    \A j \in 1..Len(hv_events') :
                      hv_events'[j].op \in {"create_instance",
                                            "create_config_drive",
                                            "attach_config_drive"}
                          => j < i
               /\ hv_result'.origin \in SpawnTrySteps \cup {"destroy"}
        /\ hv_result'.origin \in SpawnTrySteps =>
               /\ EventsNamed(hv_events', "destroy") # {}
               /\ ~vm_exists(hv_vm')
        /\ hv_result'.kind = "returned" =>
               /\ EventsNamed(hv_events', "destroy") = {}
               /\ hv_vm' = vm_in_state(HYPERV_VM_STATE_ENABLED)]_vars

\* power_on failed in spawn, the VM was destroyed and the exception of
\* power_on left spawn
C38_Witness ==
    /\ CallEnded("spawn")
    /\ hv_result = [kind |-> "raised", value |-> "HyperVException",
                    origin |-> "power_on"]
    /\ EventsNamed(hv_events, "destroy") # {}
    /\ EventsNamed(hv_events, "destroy_vm") # {}
    /\ EventsNamed(hv_events, "attach_config_drive") # {}
    /\ ~vm_exists(hv_vm)


\* C38 as stated: spawn never leaves a half-built VM behind, and the
\* exception of the failed step is the one that leaves spawn - whatever the
\* step of the try block that failed, no VM of the instance's name is left
\* when spawn has raised.
C38_NoHalfBuiltVmLeft ==
    [][(SpawnStep /\ ~vm_exists(hv_vm) /\ hv_result'.kind = "raised"
        /\ EventsNamed(hv_events', "create_instance") # {}) =>
            /\ EventsNamed(hv_events', "destroy") # {}
            /\ ~vm_exists(hv_vm')
            /\ hv_result'.origin \in SpawnTrySteps]_vars


(***************************************************************************)
(* Hyper-V VMOps: the console-log writers of one instance.  Several        *)
(* threads of the service (power_on, reboot, restart_vm_log_writers) call  *)
(* log_vm_serial_output for it; a writer stops when its pipe closes.       *)
(***************************************************************************)
Threads == 1..MaxThreads

LogCallers == {"power_on", "reboot", "restart_vm_log_writers"}

\* variant: log_serial_output not synchronized
lock_free_always(lock) == TRUE

\* @utils.synchronized(pipe_path): the lock is free
lock_free(lock) == lock = 0

\* "vm_log_writer and vm_log_writer.is_active()"
writer_running(writer, active) == writer # 0 /\ writer \in active

\* the writer started last, 0 when none was
last_started(started) ==
    IF started = <<>> THEN 0 ELSE started[Len(started)]

InitWriters ==
    /\ migrate_vars_idle
    /\ normalize_vars_idle
    /\ build_vars_idle
    /\ unshelve_vars_idle
    /\ rebuild_vars_idle
    /\ vmops_vars_idle
    /\ lw_pc = [t \in Threads |-> "idle"]
    /\ lw_caller = [t \in Threads |-> NONE]
    /\ vm_log_writer = [t \in Threads |-> 0]
    /\ lw_lock = 0
    /\ vm_log_writers = 0
    /\ lw_active = {}
    /\ lw_started = <<>>

\* _set_vm_state reaches the console log: for REBOOT the log is deleted
\* first, and _delete_vm_console_log joins the registered writer; for
\* ENABLED, and in restart_vm_log_writers, log_vm_serial_output is called
\* at once
set_vm_state_logs(t) ==
    /\ lw_pc[t] = "idle"
    /\ \E c \in LogCallers :
         /\ lw_caller' = [lw_caller EXCEPT ![t] = c]
         /\ IF c = "reboot"
            THEN /\ vm_log_writer' = [vm_log_writer EXCEPT ![t] = vm_log_writers]
                 /\ lw_pc' = [lw_pc EXCEPT ![t] = "join"]
            ELSE /\ vm_log_writer' = [vm_log_writer EXCEPT ![t] = 0]
                 /\ lw_pc' = [lw_pc EXCEPT ![t] = "log_vm_serial_output"]
    /\ UNCHANGED <<lw_lock, vm_log_writers, lw_active, lw_started>>
    /\ UNCHANGED not_writer_vars

\* _delete_vm_console_log: vm_log_writer.join() is over, the log files are
\* deleted, and _set_vm_state goes on to log_vm_serial_output
delete_vm_console_log(t) ==
    /\ lw_pc[t] = "join"
    /\ ~writer_running(vm_log_writer[t], lw_active)
    /\ lw_pc' = [lw_pc EXCEPT ![t] = "log_vm_serial_output"]
    /\ vm_log_writer' = [vm_log_writer EXCEPT ![t] = 0]
    /\ UNCHANGED <<lw_caller, lw_lock, vm_log_writers, lw_active, lw_started>>
    /\ UNCHANGED not_writer_vars

\* log_vm_serial_output calls log_serial_output, which takes the lock of
\* the pipe path
log_vm_serial_output(t) ==
    /\ lw_pc[t] = "log_vm_serial_output"
    /\ lock_free(lw_lock)
    /\ lw_lock' = t
    /\ lw_pc' = [lw_pc EXCEPT ![t] = "log_serial_output"]
    /\ UNCHANGED <<lw_caller, vm_log_writer, vm_log_writers, lw_active,
                   lw_started>>
    /\ UNCHANGED not_writer_vars

\* log_serial_output: the registered writer is looked up; when it is
\* running the function returns, else a writer is to be made
log_serial_output(t) ==
    /\ lw_pc[t] = "log_serial_output"
    /\ vm_log_writer' = [vm_log_writer EXCEPT ![t] = vm_log_writers]
    /\ IF writer_running(vm_log_writers, lw_active)
       THEN /\ lw_pc' = [lw_pc EXCEPT ![t] = "idle"]
            /\ lw_lock' = 0
       ELSE /\ lw_pc' = [lw_pc EXCEPT ![t] = "start"]
            /\ UNCHANGED lw_lock
    /\ UNCHANGED <<lw_caller, vm_log_writers, lw_active, lw_started>>
    /\ UNCHANGED not_writer_vars

\* vm_log_writer = ioutils.IOThread(...); vm_log_writer.start()
writer_start(t) ==
    /\ lw_pc[t] = "start"
    /\ Len(lw_started) < MaxWriters
    /\ LET w == Len(lw_started) + 1 IN
       /\ vm_log_writer' = [vm_log_writer EXCEPT ![t] = w]
       /\ lw_started' = Append(lw_started, w)
       /\ lw_active' = lw_active \cup {w}
    /\ lw_pc' = [lw_pc EXCEPT ![t] = "register"]
    /\ UNCHANGED <<lw_caller, lw_lock, vm_log_writers>>
    /\ UNCHANGED not_writer_vars

\* self._vm_log_writers[instance_uuid] = vm_log_writer, and the lock is
\* given back
writer_register(t) ==
    /\ lw_pc[t] = "register"
    /\ vm_log_writers' = vm_log_writer[t]
    /\ lw_lock' = 0
    /\ lw_pc' = [lw_pc EXCEPT ![t] = "idle"]
    /\ UNCHANGED <<lw_caller, vm_log_writer, lw_active, lw_started>>
    /\ UNCHANGED not_writer_vars

\* the thread of a writer ends: the pipe was closed
writer_stops ==
    /\ \E w \in lw_active : lw_active' = lw_active \ {w}
    /\ UNCHANGED <<lw_pc, lw_caller, vm_log_writer, lw_lock, vm_log_writers,
                   lw_started>>
    /\ UNCHANGED not_writer_vars

NextWriters ==
    \/ \E t \in Threads : set_vm_state_logs(t)
    \/ \E t \in Threads : delete_vm_console_log(t)
    \/ \E t \in Threads : log_vm_serial_output(t)
    \/ \E t \in Threads : log_serial_output(t)
    \/ \E t \in Threads : writer_start(t)
    \/ \E t \in Threads : writer_register(t)
    \/ writer_stops

SpecWriters == InitWriters /\ [][NextWriters]_vars

\* the threads inside log_serial_output
InLogSerialOutput ==
    {t \in Threads : lw_pc[t] \in {"log_serial_output", "start", "register"}}

AtMostOneActiveWriter ==
    /\ Cardinality(lw_active) <= 1
    /\ Cardinality(InLogSerialOutput) <= 1
    \* a running writer is the one started last
    /\ lw_active \subseteq {last_started(lw_started)}
    \* outside log_serial_output the registered writer is the one started last
    /\ InLogSerialOutput = {} => vm_log_writers = last_started(lw_started)
    \* a started writer is registered by the thread that started it
    /\ \A t \in Threads :
         lw_pc[t] = "register" => vm_log_writer[t] = last_started(lw_started)

\* C39: at most one console-log writer of the instance is active, in every
\* interleaving of the threads that call log_vm_serial_output for it; a new
\* writer is started only when no active writer is registered, and the writer
\* registered is always the one that was started.
C39_AtMostOneActiveWriter ==
    /\ []AtMostOneActiveWriter
    /\ [][/\ lw_started' # lw_started =>
                /\ ~writer_running(vm_log_writers, lw_active)
                /\ lw_active = {}
          /\ vm_log_writers' # vm_log_writers =>
                /\ vm_log_writers' = last_started(lw_started)
                /\ vm_log_writers' \in 1..Len(lw_started)]_vars

\* a second writer runs and is registered, after the first one stopped,
\* and another thread is in log_serial_output with the lock
C39_Witness ==
    /\ Len(lw_started) = 2
    /\ lw_active = {2}
    /\ vm_log_writers = 2
    /\ \E t \in Threads : lw_pc[t] = "log_serial_output" /\ lw_lock = t

====
